---- MODULE Spec2Model ----
EXTENDS Integers, Sequences, FiniteSets, TLC

(***************************************************************************)
(* float64 arithmetic.  Go's float64 is IEEE-754 binary64; every operation *)
(* rounds its exact result to 53 significant bits, ties to even.  A value  *)
(* is [s, e, m]: (-1)^s * m * 2^e, with m a natural number of exactly 53   *)
(* bits held as little-endian limbs of LimbBase (zero is m = <<>>, e = 0). *)
(* The values the program computes stay far from overflow and underflow.   *)
(***************************************************************************)
MantBits == 53
LimbBits == 14
LimbBase == 2^LimbBits

Max2(a, b) == IF a >= b THEN a ELSE b
Min2(a, b) == IF a <= b THEN a ELSE b

Limb(a, i) == IF i >= 1 /\ i <= Len(a) THEN a[i] ELSE 0

RECURSIVE BNorm(_)
BNorm(a) ==
  IF Len(a) > 0 /\ a[Len(a)] = 0 THEN BNorm(SubSeq(a, 1, Len(a) - 1)) ELSE a

RECURSIVE BCarry(_, _, _, _)
BCarry(cols, i, c, acc) ==
  IF i > Len(cols)
    THEN IF c = 0 THEN acc
         ELSE BCarry(cols, i, c \div LimbBase, Append(acc, c % LimbBase))
    ELSE LET v == cols[i] + c
         IN  BCarry(cols, i + 1, v \div LimbBase, Append(acc, v % LimbBase))

BAdd(a, b) ==
  BNorm(BCarry([i \in 1..Max2(Len(a), Len(b)) |-> Limb(a, i) + Limb(b, i)],
               1, 0, <<>>))

RECURSIVE BBorrow(_, _, _, _, _)
BBorrow(a, b, i, br, acc) ==
  IF i > Len(a) THEN acc
  ELSE LET v == a[i] - Limb(b, i) - br
       IN  IF v < 0 THEN BBorrow(a, b, i + 1, 1, Append(acc, v + LimbBase))
                    ELSE BBorrow(a, b, i + 1, 0, Append(acc, v))

\* a - b for a >= b
BSub(a, b) == BNorm(BBorrow(a, b, 1, 0, <<>>))

RECURSIVE BCmpFrom(_, _, _)
BCmpFrom(a, b, i) ==
  IF i = 0 THEN 0
  ELSE IF a[i] < b[i] THEN -1
  ELSE IF a[i] > b[i] THEN 1
  ELSE BCmpFrom(a, b, i - 1)

\* -1, 0, 1 as a < b, a = b, a > b (both normalised)
BCmp(a, b) ==
  IF Len(a) < Len(b) THEN -1
  ELSE IF Len(a) > Len(b) THEN 1
  ELSE BCmpFrom(a, b, Len(a))

RECURSIVE BColSum(_, _, _, _)
BColSum(a, b, k, i) ==
  IF i > Len(a) \/ i > k THEN 0
  ELSE a[i] * Limb(b, k + 1 - i) + BColSum(a, b, k, i + 1)

BMul(a, b) ==
  IF a = <<>> \/ b = <<>> THEN <<>>
  ELSE BNorm(BCarry([k \in 1..(Len(a) + Len(b) - 1) |-> BColSum(a, b, k, 1)],
                    1, 0, <<>>))

BShl(a, k) ==
  IF a = <<>> THEN <<>>
  ELSE [i \in 1..(k \div LimbBits) |-> 0] \o BMul(a, <<2^(k % LimbBits)>>)

BShr(a, k) ==
  LET q == k \div LimbBits
      r == k % LimbBits
      d == IF q >= Len(a) THEN <<>> ELSE SubSeq(a, q + 1, Len(a))
  IN  BNorm([i \in 1..Len(d) |->
               (d[i] \div 2^r) + (Limb(d, i + 1) % 2^r) * 2^(LimbBits - r)])

RECURSIVE BitLen(_)
BitLen(n) == IF n = 0 THEN 0 ELSE 1 + BitLen(n \div 2)

BBitLen(a) ==
  IF a = <<>> THEN 0 ELSE LimbBits * (Len(a) - 1) + BitLen(a[Len(a)])

\* bit i of a, bit 0 the lowest
BBit(a, i) == (Limb(a, i \div LimbBits + 1) \div 2^(i % LimbBits)) % 2

\* whether any of the k lowest bits of a is set
BLowBits(a, k) ==
  \/ \E i \in 1..Min2(k \div LimbBits, Len(a)) : a[i] # 0
  \/ Limb(a, k \div LimbBits + 1) % 2^(k % LimbBits) # 0

RECURSIVE BDivSmallFrom(_, _, _, _, _)
BDivSmallFrom(a, d, i, r, acc) ==
  IF i = 0 THEN [q |-> BNorm(acc), r |-> r]
  ELSE LET v == r * LimbBase + a[i]
       IN  BDivSmallFrom(a, d, i - 1, v % d, <<v \div d>> \o acc)

\* quotient and remainder of a by a natural d < LimbBase
BDivSmall(a, d) == BDivSmallFrom(a, d, Len(a), 0, <<>>)

FZero == [s |-> 0, e |-> 0, m |-> <<>>]

\* the float64 nearest to (-1)^s * m * 2^e, ties to even
FRound(s, m, e) ==
  LET L == BBitLen(m)
  IN  IF L = 0 THEN FZero
      ELSE IF L <= MantBits
        THEN [s |-> s, e |-> e - (MantBits - L), m |-> BShl(m, MantBits - L)]
      ELSE LET k     == L - MantBits
               q     == BShr(m, k)
               guard == BBit(m, k - 1)
               stick == BLowBits(m, k - 1)
               up    == guard = 1 /\ (stick \/ BBit(q, 0) = 1)
               q1    == IF up THEN BAdd(q, <<1>>) ELSE q
           IN  IF BBitLen(q1) > MantBits
                 THEN [s |-> s, e |-> e + k + 1, m |-> BShr(q1, 1)]
                 ELSE [s |-> s, e |-> e + k, m |-> q1]

\* float64(n) for an integer n
FInt(n) == IF n >= 0 THEN FRound(0, BNorm(<<n % LimbBase, n \div LimbBase>>), 0)
           ELSE FRound(1, BNorm(<<(-n) % LimbBase, (-n) \div LimbBase>>), 0)

FNeg(x) == IF x.m = <<>> THEN x ELSE [x EXCEPT !.s = 1 - x.s]

\* -1, 0, 1 as |x| < |y|, |x| = |y|, |x| > |y|
FCmpMag(x, y) ==
  IF x.m = <<>> THEN (IF y.m = <<>> THEN 0 ELSE -1)
  ELSE IF y.m = <<>> THEN 1
  ELSE IF x.e < y.e THEN -1
  ELSE IF x.e > y.e THEN 1
  ELSE BCmp(x.m, y.m)

\* -1, 0, 1 as x < y, x = y, x > y
FCmp(x, y) ==
  IF x.s = 0 /\ y.s = 0 THEN FCmpMag(x, y)
  ELSE IF x.s = 1 /\ y.s = 1 THEN FCmpMag(y, x)
  ELSE IF x.m = <<>> /\ y.m = <<>> THEN 0
  ELSE IF x.s = 1 THEN -1 ELSE 1

FLt(x, y) == FCmp(x, y) < 0
FLe(x, y) == FCmp(x, y) <= 0
FGt(x, y) == FCmp(x, y) > 0
FGe(x, y) == FCmp(x, y) >= 0
FEq(x, y) == FCmp(x, y) = 0

FAdd(x, y) ==
  IF x.m = <<>> THEN y
  ELSE IF y.m = <<>> THEN x
  ELSE LET e  == Min2(x.e, y.e)
           mx == BShl(x.m, x.e - e)
           my == BShl(y.m, y.e - e)
       IN  IF x.s = y.s THEN FRound(x.s, BAdd(mx, my), e)
           ELSE IF BCmp(mx, my) >= 0 THEN FRound(x.s, BSub(mx, my), e)
           ELSE FRound(y.s, BSub(my, mx), e)

FSub(x, y) == FAdd(x, FNeg(y))

FMul(x, y) ==
  IF x.m = <<>> \/ y.m = <<>> THEN FZero
  ELSE FRound((x.s + y.s) % 2, BMul(x.m, y.m), x.e + y.e)

\* float64(n) / float64(d) for naturals n and 0 < d < LimbBase: the quotient's
\* first bits, with one more bit that says whether the division left a remainder
FDivInt(n, d) ==
  LET shift == 5 * LimbBits
      qr    == BDivSmall(BShl(BNorm(<<n % LimbBase, n \div LimbBase>>), shift), d)
      m     == BAdd(BShl(qr.q, 1), IF qr.r = 0 THEN <<>> ELSE <<1>>)
  IN  FRound(0, m, -shift - 1)

\* the float64 a decimal literal n / 10^k denotes
Dec(n, k) == IF n >= 0 THEN FDivInt(n, 10^k) ELSE FNeg(FDivInt(-n, 10^k))

\* x / 2, exact
FHalf(x) == IF x.m = <<>> THEN x ELSE [x EXCEPT !.e = x.e - 1]

(***************************************************************************)
(* Data model (internal/models/models.go, internal/config/config.go).      *)
(* A confidence, a weight and a threshold are written as hundredths: the   *)
(* program holds the float64 that the decimal denotes.                     *)
(***************************************************************************)
ScoringCategories == <<"UX", "PAYMENT", "INFRA", "DNS", "CDN">>

\* Description is the description's whitespace-separated fields, in order
Signal(id, cat, desc, conf) ==
  [SignalID |-> id, Category |-> cat, Description |-> desc, Confidence |-> conf]

Confidence(signal) == Dec(signal.Confidence, 2)

ScoringConfig(ux, pay, infra, dns, cdn) ==
  [GamblingUI |-> ux, PaymentSignal |-> pay, InfraCorrelation |-> infra,
   DomainChurn |-> dns, CDNPattern |-> cdn]

ThresholdConfig(high, medium) == [High |-> high, Medium |-> medium]

Config(scoring, threshold) == [Scoring |-> scoring, Threshold |-> threshold]

VARIABLES
  config,       \* the process-wide *Config (config.Get(), ConfigManager.config)
  allSignals,   \* AnalyzeDomain: the signals the collaborators have produced
  result,       \* AnalyzeDomain: the scores computed from allSignals, or NoResult
  cmCall,       \* ConfigManager: the last call, its argument and the error returned
  cmCalls,      \* ConfigManager: number of calls made
  viperSet,     \* viper: key -> value stored by viper.Set (SaveConfig)
  Clusters,     \* ClusterEngine.Clusters: cluster id -> Cluster
  clock,        \* time.Now() as the ClusterEngine reads it
  ceCalls,      \* ClusterEngine: the calls made, with arguments and return values
  domains,      \* Monitor.domains: domain name -> DomainMonitor (an index of monitors)
  monitors,     \* the DomainMonitor objects allocated, each with its task's position
  mu,           \* Monitor.mu: Unlocked, or the call that holds the write lock
  mCall,        \* Monitor: the last call that returned, with its return value
  mCalls,       \* Monitor: number of calls made
  scans         \* Monitor: what AnalyzeDomain returns, by the collaborators' outcome

scoreVars   == <<allSignals, result>>
managerVars == <<cmCall, cmCalls, viperSet>>
clusterVars == <<Clusters, clock, ceCalls>>
monitorVars == <<domains, monitors, mu, mCall, mCalls, scans>>

vars == <<config, scoreVars, managerVars, clusterVars, monitorVars>>

\* no call made yet
NoCall == [op |-> "none"]

\* sync.RWMutex with no holder
Unlocked == [op |-> "unlocked"]

\* the subsystems before their first call
ManagerIdle == cmCall = NoCall /\ cmCalls = 0 /\ viperSet = <<>>

ClusterIdle == Clusters = <<>> /\ clock = 0 /\ ceCalls = <<>>

NewMonitor ==
  domains = <<>> /\ monitors = <<>> /\ mu = Unlocked /\ mCall = NoCall /\ mCalls = 0

MonitorIdle == NewMonitor /\ scans = <<>>

(***************************************************************************)
(* Category Aggregator and Risk Scorer (unnamed/part_003, package          *)
(* analyzer).  The products and sums are float64 operations in the order   *)
(* the code performs them.                                                 *)
(***************************************************************************)
NoScores == [c \in {} |-> FZero]

\* categoryScores[c] of a Go map: the zero value for a missing key
MapGet(scores, c) == IF c \in DOMAIN scores THEN scores[c] ELSE FZero

MapPut(scores, c, v) ==
  [k \in DOMAIN scores \cup {c} |-> IF k = c THEN v ELSE scores[k]]

RECURSIVE CategoryScoresLoop(_, _, _)
CategoryScoresLoop(signals, i, categoryScores) ==
  IF i > Len(signals) THEN categoryScores
  ELSE LET signal       == signals[i]
           currentScore == MapGet(categoryScores, signal.Category)
       IN  CategoryScoresLoop(signals, i + 1,
             IF FGt(Confidence(signal), currentScore)
               THEN MapPut(categoryScores, signal.Category, Confidence(signal))
               ELSE categoryScores)

calculateCategoryScoresWithSignals(signals) ==
  CategoryScoresLoop(signals, 1, NoScores)

calculateConfidenceFactor(categoryScores) ==
  LET count == Cardinality({c \in DOMAIN categoryScores :
                              FGt(categoryScores[c], FZero)})
  IN  IF count >= 3 THEN FInt(1) ELSE FMul(FInt(count), Dec(33, 2))

\* clamp to [0, 1], as both score functions end
Clamp01(x) ==
  IF FGt(x, FInt(1)) THEN FInt(1) ELSE IF FLt(x, FZero) THEN FZero ELSE x

calculateJLIScore(categoryScores, weights) ==
  LET r1 == FAdd(FZero, FMul(MapGet(categoryScores, "UX"), Dec(weights.GamblingUI, 2)))
      r2 == FAdd(r1, FMul(MapGet(categoryScores, "PAYMENT"), Dec(weights.PaymentSignal, 2)))
      r3 == FAdd(r2, FMul(MapGet(categoryScores, "INFRA"), Dec(weights.InfraCorrelation, 2)))
      r4 == FAdd(r3, FMul(MapGet(categoryScores, "DNS"), Dec(weights.DomainChurn, 2)))
      jliRaw == FAdd(r4, FMul(MapGet(categoryScores, "CDN"), Dec(weights.CDNPattern, 2)))
  IN  Clamp01(FMul(jliRaw, calculateConfidenceFactor(categoryScores)))

\* mutant: the boost given from half of the signals on
calculateSignalFactor_Half(signals) ==
  LET highConfidenceCount ==
        Cardinality({i \in 1..Len(signals) : FGe(Confidence(signals[i]), Dec(8, 1))})
      totalCount == Len(signals)
  IN  IF totalCount > 0 /\ FGe(FDivInt(highConfidenceCount, totalCount), Dec(5, 1))
        THEN Dec(12, 1)
        ELSE FInt(1)

calculateSignalFactor(signals) ==
  LET highConfidenceCount ==
        Cardinality({i \in 1..Len(signals) : FGe(Confidence(signals[i]), Dec(8, 1))})
      totalCount == Len(signals)
  IN  IF totalCount > 0 /\ FGe(FDivInt(highConfidenceCount, totalCount), Dec(7, 1))
        THEN Dec(12, 1)
        ELSE FInt(1)

calculateTemporalFactor == FInt(1)

\* mutant: the enhanced score without its final clamp
calculateEnhancedJLIScore_NoClamp(categoryScores, weights, signals) ==
  FMul(FMul(calculateJLIScore(categoryScores, weights), calculateSignalFactor(signals)),
       calculateTemporalFactor)

calculateEnhancedJLIScore(categoryScores, weights, signals) ==
  LET jliBase == calculateJLIScore(categoryScores, weights)
  IN  Clamp01(FMul(FMul(jliBase, calculateSignalFactor(signals)),
                   calculateTemporalFactor))

\* mutant: the high threshold compared exclusively
classifyJLILevel_Exclusive(jliScore, thresholds) ==
  IF FGt(jliScore, Dec(thresholds.High, 2)) THEN "HIGH"
  ELSE IF FGe(jliScore, Dec(thresholds.Medium, 2)) THEN "MEDIUM"
  ELSE "LOW"

classifyJLILevel(jliScore, thresholds) ==
  IF FGe(jliScore, Dec(thresholds.High, 2)) THEN "HIGH"
  ELSE IF FGe(jliScore, Dec(thresholds.Medium, 2)) THEN "MEDIUM"
  ELSE "LOW"

NoResult == [done |-> FALSE]

\* the weight AnalyzeDomain's breakdown gives a category (0 for any other category)
CategoryWeight(category, weights) ==
  CASE category = "UX"      -> Dec(weights.GamblingUI, 2)
    [] category = "PAYMENT" -> Dec(weights.PaymentSignal, 2)
    [] category = "INFRA"   -> Dec(weights.InfraCorrelation, 2)
    [] category = "DNS"     -> Dec(weights.DomainChurn, 2)
    [] category = "CDN"     -> Dec(weights.CDNPattern, 2)
    [] OTHER                -> FZero

\* the AnalysisResult AnalyzeDomain builds from its scores; profile is only recorded
AnalysisResult(signals, categoryScores, jliScore, cfg, profile) ==
  [done |-> TRUE, Signals |-> signals, CategoryScores |-> categoryScores,
   JLIScore |-> jliScore,
   JLILevel |-> classifyJLILevel(jliScore, cfg.Threshold),
   CategoryBreakdown |->
     [c \in DOMAIN categoryScores |->
        [Score |-> categoryScores[c],
         Weight |-> CategoryWeight(c, cfg.Scoring),
         Contribution |-> FMul(categoryScores[c], CategoryWeight(c, cfg.Scoring))]],
   ProfileUsed |-> profile]

AnalysisScored(signals, categoryScores, cfg, profile) ==
  AnalysisResult(signals, categoryScores,
                 calculateEnhancedJLIScore(categoryScores, cfg.Scoring, signals),
                 cfg, profile)

\* AnalyzeDomain's scoring of the combined signals: cfg is config.Get(), the
\* configuration in effect, whatever profile names
Analysis(signals, cfg, profile) ==
  AnalysisScored(signals, calculateCategoryScoresWithSignals(signals), cfg, profile)

(***************************************************************************)
(* Profile validation (internal/config/manager.go).                        *)
(***************************************************************************)
NoError == "ok"

validateProfile(profile) ==
  LET totalWeight ==
        FAdd(FAdd(FAdd(FAdd(Dec(profile.Scoring.GamblingUI, 2),
                            Dec(profile.Scoring.PaymentSignal, 2)),
                       Dec(profile.Scoring.InfraCorrelation, 2)),
                  Dec(profile.Scoring.DomainChurn, 2)),
             Dec(profile.Scoring.CDNPattern, 2))
      high   == Dec(profile.Threshold.High, 2)
      medium == Dec(profile.Threshold.Medium, 2)
  IN  IF ~FEq(totalWeight, FInt(1)) THEN "weights do not sum to 1.0"
      ELSE IF FLt(high, medium) THEN "high threshold must be >= medium threshold"
      ELSE IF FGt(high, FInt(1)) \/ FGt(medium, FInt(1))
              \/ FLt(high, FZero) \/ FLt(medium, FZero)
        THEN "thresholds must be between 0 and 1"
      ELSE NoError

\* GetProfile's result for a name outside the built-in ones: nil and the error
ProfileNotFound == [err |-> "profile not found"]

\* GetProfile: the built-in profiles
GetProfile(name) ==
  CASE name = "standard" ->
         Config(ScoringConfig(30, 25, 20, 15, 10), ThresholdConfig(75, 50))
    [] name = "intensive" ->
         Config(ScoringConfig(35, 30, 20, 10, 5), ThresholdConfig(60, 30))
    [] name = "conservative" ->
         Config(ScoringConfig(20, 20, 25, 25, 10), ThresholdConfig(85, 65))
    [] name = "aggressive" ->
         Config(ScoringConfig(40, 30, 15, 10, 5), ThresholdConfig(50, 25))
    [] OTHER -> ProfileNotFound

GetAvailableProfiles == {"standard", "intensive", "conservative", "aggressive"}

(***************************************************************************)
(* Scoring one domain: AnalyzeDomain gathers the collaborators' signals,   *)
(* then scores them under the configuration in effect.                     *)
(***************************************************************************)
MaxSignals == 3

\* signals the scored list is built from: any models.Signal with a confidence
\* in [0,1], of a scoring category or of another one
SignalPool ==
  { Signal("ux_a", "UX", <<>>, 100),      Signal("ux_b", "UX", <<>>, 80),
    Signal("ux_c", "UX", <<>>, 0),        Signal("pay_a", "PAYMENT", <<>>, 90),
    Signal("infra_a", "INFRA", <<>>, 100), Signal("mon_a", "MONITOR", <<>>, 40) }

\* configurations in effect: each passes validateProfile
ScoreProfiles ==
  { GetProfile("standard"),
    Config(ScoringConfig(100, 0, 0, 0, 0), ThresholdConfig(100, 80)),
    Config(ScoringConfig(150, -50, 0, 0, 0), ThresholdConfig(75, 50)),
    Config(ScoringConfig(30, 25, 20, 15, 10), ThresholdConfig(75, 0)) }

\* the signal lists ScanDomain may return before the collaborators add theirs:
\* none, or one signal in each scoring category
ScannedSignals ==
  { <<>>,
    << Signal("ux_s", "UX", <<>>, 80), Signal("pay_s", "PAYMENT", <<>>, 90),
       Signal("infra_s", "INFRA", <<>>, 60), Signal("dns_s", "DNS", <<>>, 40),
       Signal("cdn_s", "CDN", <<>>, 30) >> }

InitScore ==
  /\ config \in ScoreProfiles
  /\ allSignals \in ScannedSignals
  /\ result = NoResult
  /\ ManagerIdle /\ ClusterIdle /\ MonitorIdle

\* a collaborator's signal joins the scan's list (ScanDomain, AnalyzeDomain's appends)
CollectSignal(signal) ==
  /\ ~result.done
  /\ Len(allSignals) < MaxSignals
  /\ allSignals' = Append(allSignals, signal)
  /\ UNCHANGED <<config, result, managerVars, clusterVars, monitorVars>>

\* the profile names a scan is requested with
RequestedProfiles == {"standard", "aggressive"}

\* the scoring steps of AnalyzeDomain(domain, timeout, profile)
AnalyzeDomain(profile) ==
  /\ ~result.done
  /\ result' = Analysis(allSignals, config, profile)
  /\ UNCHANGED <<config, allSignals, managerVars, clusterVars, monitorVars>>

NextScore ==
  \/ \E signal \in SignalPool : CollectSignal(signal)
  \/ \E profile \in RequestedProfiles : AnalyzeDomain(profile)

SpecScore == InitScore /\ [][NextScore]_vars

(***************************************************************************)
(* Claims about the Category Aggregator and the Risk Scorer (SpecScore).   *)
(***************************************************************************)
CategoriesOf(signals) == {signals[i].Category : i \in 1..Len(signals)}

\* the largest confidence (in hundredths) among the signals of category c
MaxConfidence(signals, c) ==
  CHOOSE m \in {signals[i].Confidence : i \in {j \in 1..Len(signals) : signals[j].Category = c}} :
    \A i \in 1..Len(signals) : signals[i].Category = c => signals[i].Confidence <= m

\* a signal of the same category has a strictly higher confidence
StrictlyLowerDuplicate(signals, s) ==
  \E i \in 1..Len(signals) :
    signals[i].Category = s.Category /\ signals[i].Confidence > s.Confidence

\* C1: the aggregator maps every category of the input to the maximum confidence
\* among that category's signals, a strictly lower duplicate leaves the map
\* unchanged, and an empty input gives an empty map.
C1_CategoryMaximum ==
  result.done =>
    /\ DOMAIN result.CategoryScores = CategoriesOf(allSignals)
    /\ \A c \in CategoriesOf(allSignals) :
         /\ c \in DOMAIN result.CategoryScores
         /\ result.CategoryScores[c] = Dec(MaxConfidence(allSignals, c), 2)
    /\ \A s \in SignalPool :
         StrictlyLowerDuplicate(allSignals, s) =>
           calculateCategoryScoresWithSignals(Append(allSignals, s))
             = result.CategoryScores
    /\ (allSignals = <<>> => result.CategoryScores = NoScores)

InUnitInterval(x) == FGe(x, FZero) /\ FLe(x, FInt(1))

\* C2 (as amended): under every valid profile the final score lies in [0,1]; an
\* empty signal list scores 0, and its level is LOW when the medium threshold is
\* above 0.
C2_ScoreInUnitInterval ==
  (result.done /\ validateProfile(config) = NoError) =>
    /\ InUnitInterval(result.JLIScore)
    /\ (allSignals = <<>> =>
          /\ FEq(result.JLIScore, FZero)
          /\ (config.Threshold.Medium > 0 => result.JLILevel = "LOW"))

\* C2 witness: a scored list whose weighted product exceeds 1 before the clamp
C2_Witness ==
  /\ result.done
  /\ validateProfile(config) = NoError
  /\ FGt(FMul(calculateJLIScore(result.CategoryScores, config.Scoring),
              calculateSignalFactor(allSignals)), FInt(1))
  /\ FEq(result.JLIScore, FInt(1))

\* C2 as stated: the score lies in [0,1] and an empty list is score 0, level LOW
C2_Original ==
  (result.done /\ validateProfile(config) = NoError) =>
    /\ InUnitInterval(result.JLIScore)
    /\ (allSignals = <<>> =>
          FEq(result.JLIScore, FZero) /\ result.JLILevel = "LOW")

\* C3: HIGH iff score >= high, MEDIUM iff medium <= score < high, LOW otherwise;
\* both comparisons are inclusive.
C3_LevelThresholds ==
  result.done =>
    LET score  == result.JLIScore
        high   == Dec(config.Threshold.High, 2)
        medium == Dec(config.Threshold.Medium, 2)
        isHigh == FCmp(score, high) >= 0
        isMed  == FCmp(score, medium) >= 0 /\ FCmp(score, high) < 0
    IN  /\ (result.JLILevel = "HIGH" <=> isHigh)
        /\ (result.JLILevel = "MEDIUM" <=> isMed)
        /\ (result.JLILevel = "LOW" <=> (~isHigh /\ ~isMed))

\* C3 witness: a score exactly equal to the high threshold, classified HIGH
C3_Witness ==
  /\ result.done
  /\ allSignals # <<>>
  /\ result.JLIScore = Dec(config.Threshold.High, 2)
  /\ result.JLILevel = "HIGH"


(***************************************************************************)
(* ConfigManager (internal/config/manager.go) over the process-wide        *)
(* configuration (internal/config/config.go).                              *)
(***************************************************************************)
ConfigKeys ==
  { "scoring.gambling_ui", "scoring.payment_signal", "scoring.infra_correlation",
    "scoring.domain_churn", "scoring.cdn_pattern", "thresholds.high",
    "thresholds.medium" }

GetDefaultConfig == Config(ScoringConfig(30, 25, 20, 15, 10), ThresholdConfig(75, 50))

\* GetConfigValue's result for a key outside ConfigKeys: nil and the error
UnknownKey == [err |-> "unknown configuration key"]

\* GetConfigValue: the field a key names
GetConfigValue(cfg, key) ==
  CASE key = "scoring.gambling_ui"       -> cfg.Scoring.GamblingUI
    [] key = "scoring.payment_signal"    -> cfg.Scoring.PaymentSignal
    [] key = "scoring.infra_correlation" -> cfg.Scoring.InfraCorrelation
    [] key = "scoring.domain_churn"      -> cfg.Scoring.DomainChurn
    [] key = "scoring.cdn_pattern"       -> cfg.Scoring.CDNPattern
    [] key = "thresholds.high"           -> cfg.Threshold.High
    [] key = "thresholds.medium"         -> cfg.Threshold.Medium
    [] OTHER                             -> UnknownKey

\* the assignment UpdateConfigValue's switch makes for a key
SetConfigValue(cfg, key, v) ==
  CASE key = "scoring.gambling_ui"       -> [cfg EXCEPT !.Scoring.GamblingUI = v]
    [] key = "scoring.payment_signal"    -> [cfg EXCEPT !.Scoring.PaymentSignal = v]
    [] key = "scoring.infra_correlation" -> [cfg EXCEPT !.Scoring.InfraCorrelation = v]
    [] key = "scoring.domain_churn"      -> [cfg EXCEPT !.Scoring.DomainChurn = v]
    [] key = "scoring.cdn_pattern"       -> [cfg EXCEPT !.Scoring.CDNPattern = v]
    [] key = "thresholds.high"           -> [cfg EXCEPT !.Threshold.High = v]
    [] key = "thresholds.medium"         -> [cfg EXCEPT !.Threshold.Medium = v]
    [] OTHER                             -> cfg

\* the keys of a file whose value viper.Unmarshal cannot decode as float64:
\* a value viper.Set has stored for the key is read instead of the file's
Undecodable(overrides, file) == file.undecodable \ DOMAIN overrides

\* viper.Unmarshal into cfg: for each key the value viper.Set stored, else the
\* file's, else the default Initialize registered; the field of a key whose
\* value cannot be decoded is left as it is, the other fields are assigned
Unmarshal(cfg, overrides, file) ==
  LET setting(key) == IF key \in DOMAIN overrides THEN overrides[key]
                      ELSE IF key \in file.undecodable THEN GetConfigValue(cfg, key)
                      ELSE IF key \in DOMAIN file.settings THEN file.settings[key]
                      ELSE GetConfigValue(GetDefaultConfig, key)
  IN  Config(ScoringConfig(setting("scoring.gambling_ui"),
                           setting("scoring.payment_signal"),
                           setting("scoring.infra_correlation"),
                           setting("scoring.domain_churn"),
                           setting("scoring.cdn_pattern")),
             ThresholdConfig(setting("thresholds.high"), setting("thresholds.medium")))

MaxConfigCalls == 2

\* profiles offered to CreateProfile, ApplyProfile and the two setters
ConfigProfiles ==
  { GetProfile(name) : name \in GetAvailableProfiles } \cup
  { Config(ScoringConfig(30, 30, 30, 30, 30), ThresholdConfig(75, 50)),
    Config(ScoringConfig(30, 25, 20, 15, 10), ThresholdConfig(50, 75)),
    Config(ScoringConfig(30, 25, 20, 15, 10), ThresholdConfig(120, 50)),
    Config(ScoringConfig(30, 25, 20, 15, 10), ThresholdConfig(50, -10)) }

\* a configuration file: whether viper can read it, and key -> value for the
\* keys it sets
ConfigFile(settings) == [readable |-> TRUE, settings |-> settings, undecodable |-> {}]

NoFile == [readable |-> FALSE]

\* a readable file with a value that is no number (scoring.gambling_ui: abc)
\* beside a valid one
UndecodableFile ==
  [readable |-> TRUE, settings |-> [key \in {"thresholds.high"} |-> 40],
   undecodable |-> {"scoring.gambling_ui"}]

\* viper with no value stored by viper.Set
NoOverrides == [key \in {} |-> 0]

ConfigFiles ==
  { ConfigFile([key \in {} |-> 0]),
    ConfigFile([key \in {"thresholds.high"} |-> 40]),
    ConfigFile([key \in {"scoring.gambling_ui", "scoring.payment_signal"} |->
                  IF key = "scoring.gambling_ui" THEN 50 ELSE 5]) }

\* values offered to UpdateConfigValue: float64 values and one of another type
UpdateValues ==
  { [type |-> "float64", v |-> 35], [type |-> "float64", v |-> 10],
    [type |-> "int", v |-> 1] }

\* Initialize: the defaults, overlaid with the configuration file if there is one
InitConfig ==
  /\ config \in {Unmarshal(GetDefaultConfig, NoOverrides, file) : file \in ConfigFiles}
  /\ cmCall = [op |-> "Initialize"]
  /\ cmCalls = 0
  /\ viperSet = NoOverrides
  /\ allSignals = <<>> /\ result = NoResult
  /\ ClusterIdle /\ MonitorIdle

\* a ConfigManager call returns: profile is the profile it was given to check or set
Returned(op, profile, err) ==
  /\ cmCalls < MaxConfigCalls
  /\ cmCalls' = cmCalls + 1
  /\ cmCall' = [op |-> op, profile |-> profile, err |-> err]
  /\ UNCHANGED <<scoreVars, clusterVars, monitorVars>>

\* a call that leaves viper's stored values alone
ReturnedPlain(op, profile, err) ==
  /\ Returned(op, profile, err)
  /\ UNCHANGED viperSet

\* ValidateConfig applies to cm.config the checks validateProfile applies to its argument
ValidateConfig ==
  /\ ReturnedPlain("ValidateConfig", config, validateProfile(config))
  /\ UNCHANGED config

CreateProfile(scoring, threshold) ==
  /\ ReturnedPlain("CreateProfile", Config(scoring, threshold),
              validateProfile(Config(scoring, threshold)))
  /\ UNCHANGED config

ApplyProfile(scoring, threshold) ==
  /\ ReturnedPlain("ApplyProfile", Config(scoring, threshold), NoError)
  /\ config' = Config(scoring, threshold)

SetScoringConfig(scoring) ==
  /\ ReturnedPlain("SetScoringConfig", Config(scoring, config.Threshold), NoError)
  /\ config' = [config EXCEPT !.Scoring = scoring]

SetThresholdConfig(threshold) ==
  /\ ReturnedPlain("SetThresholdConfig", Config(config.Scoring, threshold), NoError)
  /\ config' = [config EXCEPT !.Threshold = threshold]

ResetToDefault ==
  /\ ReturnedPlain("ResetToDefault", GetDefaultConfig, NoError)
  /\ config' = GetDefaultConfig

\* the switch on the key comes first; in a key's case the field is assigned
\* when the value is a float64, then the whole configuration is validated
UpdateConfigValue(key, value) ==
  IF key \notin ConfigKeys
    THEN /\ ReturnedPlain("UpdateConfigValue", config, "unknown configuration key")
         /\ UNCHANGED config
  ELSE IF value.type # "float64"
    THEN /\ ReturnedPlain("UpdateConfigValue", config, "invalid value type")
         /\ UNCHANGED config
    ELSE /\ ReturnedPlain("UpdateConfigValue", SetConfigValue(config, key, value.v),
                          validateProfile(SetConfigValue(config, key, value.v)))
         /\ config' = SetConfigValue(config, key, value.v)

\* viper.ReadInConfig, then viper.Unmarshal(&cm.config), which decodes in place
LoadConfig(file) ==
  IF ~file.readable
    THEN /\ ReturnedPlain("LoadConfig", config, "failed to read config file")
         /\ UNCHANGED config
    ELSE /\ ReturnedPlain("LoadConfig", Unmarshal(config, viperSet, file),
                          IF Undecodable(viperSet, file) # {}
                            THEN "failed to unmarshal config" ELSE NoError)
         /\ config' = Unmarshal(config, viperSet, file)

\* what happens to SaveConfig's file: the home directory is not found (path ""),
\* the file cannot be written, or it is written
SaveOutcomes == {"failed to get home directory", "failed to write config file", NoError}

\* SaveConfig: the seven viper.Set calls store the configuration's values, which
\* every later Unmarshal reads before the file's; then the file is written
SaveConfig(outcome) ==
  /\ Returned("SaveConfig", config, outcome)
  /\ viperSet' = IF outcome = "failed to get home directory" THEN viperSet
                 ELSE [key \in ConfigKeys |-> GetConfigValue(config, key)]
  /\ UNCHANGED config

NextConfig ==
  \/ ValidateConfig
  \/ \E p \in ConfigProfiles : CreateProfile(p.Scoring, p.Threshold)
  \/ \E p \in ConfigProfiles : ApplyProfile(p.Scoring, p.Threshold)
  \/ \E p \in ConfigProfiles : SetScoringConfig(p.Scoring)
  \/ \E p \in ConfigProfiles : SetThresholdConfig(p.Threshold)
  \/ ResetToDefault
  \/ \E key \in ConfigKeys \cup {"bogus"}, value \in UpdateValues :
       UpdateConfigValue(key, value)
  \/ \E file \in ConfigFiles \cup {NoFile, UndecodableFile} : LoadConfig(file)
  \/ \E outcome \in SaveOutcomes : SaveConfig(outcome)

SpecConfig == InitConfig /\ [][NextConfig]_vars

(***************************************************************************)
(* Claims about profile validation (SpecConfig).                           *)
(***************************************************************************)
\* the three conditions on a profile, on the decimal values it is written with
WeightsSumToOne(profile) ==
  profile.Scoring.GamblingUI + profile.Scoring.PaymentSignal
    + profile.Scoring.InfraCorrelation + profile.Scoring.DomainChurn
    + profile.Scoring.CDNPattern = 100

ThresholdsOrdered(profile) == profile.Threshold.High >= profile.Threshold.Medium

ThresholdsInRange(profile) ==
  /\ 0 <= profile.Threshold.High /\ profile.Threshold.High <= 100
  /\ 0 <= profile.Threshold.Medium /\ profile.Threshold.Medium <= 100

\* C4: ValidateConfig and CreateProfile return an error exactly for the profiles
\* whose weights do not sum to 1.0, whose high threshold is below the medium one
\* or which have a threshold outside [0,1]; every built-in profile is accepted;
\* the profile checked is not modified.
C4_ValidationDecides ==
  cmCall.op \in {"ValidateConfig", "CreateProfile"} =>
    /\ cmCall.err = NoError <=>
         /\ WeightsSumToOne(cmCall.profile)
         /\ ThresholdsOrdered(cmCall.profile)
         /\ ThresholdsInRange(cmCall.profile)
    /\ (cmCall.profile \in {GetProfile(name) : name \in GetAvailableProfiles}
          => cmCall.err = NoError)
    /\ (cmCall.op = "ValidateConfig" => config = cmCall.profile)


(***************************************************************************)
(* ClusterEngine (unnamed/part_003, package analyzer).  A description is   *)
(* held as its whitespace-separated fields; the words below are the        *)
(* vocabulary of the descriptions the model uses.                          *)
(***************************************************************************)
\* net.ParseIP(word) != nil, for the words of the vocabulary
ParseIP(word) == word \in {"1.2.3.4", "5.6.7.8"}

\* the words that hold a ':' (each as its last character)
HasColon(word) == word \in {"CDN:", "address:"}

\* strings.Contains(desc, first + " " + rest) for a phrase of two words, where
\* prefixed is the set of vocabulary words that start with the second word
ContainsPhrase(desc, first, prefixed) ==
  \E i \in 1..(Len(desc) - 1) : desc[i] = first /\ desc[i + 1] \in prefixed

\* the signal ScanDomain emits for a detected origin IP
OriginIPSignal(ip) ==
  Signal("origin_ip_detected", "INFRA",
         <<"Potential", "origin", "IP", "detected", "behind", "CDN:", ip>>, 80)

\* an origin IP signal of a collaborator that names its signals by category
NamedOriginIPSignal(ip) ==
  Signal("INFRA", "INFRA",
         <<"Potential", "origin", "IP", "detected", "behind", "CDN:", ip>>, 80)

\* the signal BehavioralAnalyzer.checkCryptoAddresses emits
CryptoAddressSignal(currency, address) ==
  Signal("crypto_address_" \o currency, "PAYMENT",
         <<"Found", currency, "cryptocurrency", "address:", address>>, 95)

\* the first field that parses as an IP address, or ""
RECURSIVE extractIPFromDescription(_)
extractIPFromDescription(desc) ==
  IF desc = <<>> THEN ""
  ELSE IF ParseIP(Head(desc)) THEN Head(desc)
  ELSE extractIPFromDescription(Tail(desc))

\* the first word of wallet-like length (20 < len < 50) in parts, or ""
RECURSIVE FirstWalletLike(_)
FirstWalletLike(parts) ==
  IF parts = <<>> THEN ""
  ELSE IF Len(Head(parts)) > 20 /\ Len(Head(parts)) < 50 THEN Head(parts)
  ELSE FirstWalletLike(Tail(parts))

\* the text after the first ':' is split at spaces; the colon ends its word
RECURSIVE extractWalletFromDescription(_)
extractWalletFromDescription(desc) ==
  IF desc = <<>> THEN ""
  ELSE IF HasColon(Head(desc)) THEN FirstWalletLike(Tail(desc))
  ELSE extractWalletFromDescription(Tail(desc))

NoResources == [t \in {} |-> ""]

RECURSIVE SharedResourcesLoop(_, _, _)
SharedResourcesLoop(signals, i, resources) ==
  IF i > Len(signals) THEN resources
  ELSE SharedResourcesLoop(signals, i + 1,
         IF /\ signals[i].Category = "INFRA"
            /\ ContainsPhrase(signals[i].Description, "origin", {"IP"})
           THEN IF extractIPFromDescription(signals[i].Description) # ""
                  THEN MapPut(resources, "ip",
                              extractIPFromDescription(signals[i].Description))
                  ELSE resources
         ELSE IF /\ signals[i].Category = "PAYMENT"
                 /\ ContainsPhrase(signals[i].Description, "cryptocurrency",
                                   {"address", "address:"})
           THEN IF extractWalletFromDescription(signals[i].Description) # ""
                  THEN MapPut(resources, "wallet",
                              extractWalletFromDescription(signals[i].Description))
                  ELSE resources
         ELSE resources)

extractSharedResources(signals) == SharedResourcesLoop(signals, 1, NoResources)

\* the distinct categories of the signals (a Go slice in map order; only
\* membership is used)
extractSignalCategories(signals) == {signals[i].Category : i \in 1..Len(signals)}

RECURSIVE extractSharedSignals(_)
extractSharedSignals(signals) ==
  IF signals = <<>> THEN <<>>
  ELSE IF Head(signals).Category \in {"INFRA", "PAYMENT"}
    THEN <<Head(signals).SignalID>> \o extractSharedSignals(Tail(signals))
  ELSE extractSharedSignals(Tail(signals))

\* domain followed by the ids of the PAYMENT and INFRA signals, in order
RECURSIVE ClusterIDData(_, _)
ClusterIDData(data, signals) ==
  IF signals = <<>> THEN data
  ELSE ClusterIDData(IF Head(signals).Category \in {"PAYMENT", "INFRA"}
                       THEN data \o Head(signals).SignalID
                       ELSE data,
                     Tail(signals))

\* the first 12 hex digits of the MD5 of data: a fingerprint of data, taken
\* to be free of collisions
MD5Hex12(data) == "md5[" \o data \o "]"

generateClusterID(domain, signals) == MD5Hex12(ClusterIDData(domain, signals))


\* a *Cluster
Cluster(id, confidence, clusterDomains, sharedSignals, firstSeen, lastSeen, resources) ==
  [ID |-> id, Confidence |-> confidence, Domains |-> clusterDomains,
   SharedSignals |-> sharedSignals, FirstSeen |-> firstSeen, LastSeen |-> lastSeen,
   SharedResources |-> resources]

MapDelete(map, k) == [x \in DOMAIN map \ {k} |-> map[x]]

\* the cluster's shared-signal entries found among the analysis's categories
SharedSignalCount(sharedSignals, analysisSignals) ==
  Cardinality({i \in 1..Len(sharedSignals) : sharedSignals[i] \in analysisSignals})

\* the analysis's resources the cluster holds with the same value
SharedResourceCount(clusterResources, analysisResources) ==
  Cardinality({t \in DOMAIN analysisResources :
                 t \in DOMAIN clusterResources
                   /\ clusterResources[t] = analysisResources[t]})

SignalSimilarity(cluster, analysisSignals) ==
  IF Len(cluster.SharedSignals) > 0
    THEN FAdd(FZero,
              FMul(FDivInt(SharedSignalCount(cluster.SharedSignals, analysisSignals),
                           Len(cluster.SharedSignals)),
                   Dec(4, 1)))
    ELSE FZero

ResourceSimilarity(score, cluster, analysisResources) ==
  IF Cardinality(DOMAIN analysisResources) > 0
    THEN FAdd(score,
              FMul(FDivInt(SharedResourceCount(cluster.SharedResources,
                                               analysisResources),
                           Cardinality(DOMAIN analysisResources)),
                   Dec(6, 1)))
    ELSE score

calculateClusterSimilarity(cluster, signals) ==
  ResourceSimilarity(SignalSimilarity(cluster, extractSignalCategories(signals)),
                     cluster, extractSharedResources(signals))

\* the ids findBestCluster can return for these similarities: it ranges over
\* the Go map in an arbitrary order and keeps the first cluster whose score is
\* the largest, provided that score is at least 0.5
BestClusters(scores) ==
  {id \in DOMAIN scores :
     /\ FGt(scores[id], FZero)
     /\ FGe(scores[id], Dec(5, 1))
     /\ \A other \in DOMAIN scores : FGe(scores[id], scores[other])}

findBestCluster(registry, signals) ==
  BestClusters([id \in DOMAIN registry |->
                  calculateClusterSimilarity(registry[id], signals)])

\* updateSharedResources: a resource type is added only if the cluster has none
updateSharedResources(clusterResources, newResources) ==
  [t \in DOMAIN clusterResources \cup DOMAIN newResources |->
     IF t \in DOMAIN clusterResources THEN clusterResources[t] ELSE newResources[t]]

\* mutant: a join that also restarts the cluster's FirstSeen
JoinCluster_Restarts(cluster, domain, signals, t) ==
  [cluster EXCEPT !.Domains = Append(@, domain),
                  !.FirstSeen = t,
                  !.LastSeen = t,
                  !.SharedResources =
                     updateSharedResources(@, extractSharedResources(signals))]

\* the cluster after AddDomainToCluster has joined domain to it
JoinCluster(cluster, domain, signals, t) ==
  [cluster EXCEPT !.Domains = Append(@, domain),
                  !.LastSeen = t,
                  !.SharedResources =
                     updateSharedResources(@, extractSharedResources(signals))]

\* firstSeen and lastSeen are its two readings of time.Now()
NewCluster(domain, signals, firstSeen, lastSeen) ==
  Cluster(generateClusterID(domain, signals), FInt(1), <<domain>>,
          extractSharedSignals(signals), firstSeen, lastSeen,
          extractSharedResources(signals))

\* append the elements of more that are not yet in list, in order
RECURSIVE AppendMissing(_, _)
AppendMissing(list, more) ==
  IF more = <<>> THEN list
  ELSE AppendMissing(IF \E i \in 1..Len(list) : list[i] = Head(more)
                       THEN list ELSE Append(list, Head(more)),
                     Tail(more))

\* cluster1 after MergeClusters has merged cluster2 into it
MergedCluster(cluster1, cluster2) ==
  [cluster1 EXCEPT
     !.Domains = AppendMissing(@, cluster2.Domains),
     !.SharedSignals = AppendMissing(@, cluster2.SharedSignals),
     !.SharedResources =
        [t \in DOMAIN @ \cup DOMAIN cluster2.SharedResources |->
           IF t \in DOMAIN cluster2.SharedResources
             THEN cluster2.SharedResources[t] ELSE @[t]],
     !.Confidence = FHalf(FAdd(@, cluster2.Confidence)),
     !.LastSeen = Max2(@, cluster2.LastSeen)]

CapAtOne(confidence) == IF FGt(confidence, FInt(1)) THEN FInt(1) ELSE confidence

\* mutant: the recalculated confidence without its cap
ClusterConfidence_Uncapped(cluster) ==
  FAdd(FAdd(FMul(FInt(Len(cluster.Domains)), Dec(3, 1)),
            FMul(FInt(Len(cluster.SharedSignals)), Dec(2, 1))),
       FMul(FInt(Cardinality(DOMAIN cluster.SharedResources)), Dec(3, 1)))

ClusterConfidence(cluster) ==
  CapAtOne(FAdd(FAdd(FMul(FInt(Len(cluster.Domains)), Dec(3, 1)),
                     FMul(FInt(Len(cluster.SharedSignals)), Dec(2, 1))),
                FMul(FInt(Cardinality(DOMAIN cluster.SharedResources)), Dec(3, 1))))

MaxClusterCalls == 3

ClusterDomains == {"a.com", "b.com"}

\* the signal lists of the analyses offered to the engine
ClusterAnalyses ==
  { <<OriginIPSignal("1.2.3.4")>>,
    <<OriginIPSignal("1.2.3.4"),
      CryptoAddressSignal("bitcoin", "1A1zP1eP5QGefi2DMPTfTL5SLmv7DivfNa")>>,
    <<OriginIPSignal("5.6.7.8"),
      CryptoAddressSignal("bitcoin", "1A1zP1eP5QGefi2DMPTfTL5SLmv7DivfNa")>>,
    <<Signal("test_signal_1", "PAYMENT", <<>>, 80),
      Signal("test_signal_2", "UX", <<>>, 70)>>,
    <<NamedOriginIPSignal("1.2.3.4")>> }

\* an id no cluster has
UnknownCluster == "unknown"

\* NewClusterEngine
InitCluster ==
  /\ ClusterIdle
  /\ config = GetDefaultConfig
  /\ allSignals = <<>> /\ result = NoResult
  /\ ManagerIdle /\ MonitorIdle

\* the methods that only read the registry
QueryOps ==
  {"GetCluster", "GetAllClusters", "GetClusterForDomain", "GetClustersByConfidence",
   "FindClustersByResource", "GetClusterStatistics"}

\* the calls that write nothing: a query, a merge that returns the error, a
\* recalculation for an id the registry does not hold
WritesNothing(call) ==
  \/ call.op \in QueryOps
  \/ call.op = "MergeClusters" /\ call.err # NoError
  \/ call.op = "UpdateClusterConfidence" /\ ~call.exists

\* a run is at most MaxClusterCalls calls, of which only the last may be one
\* that writes nothing: the registry a longer run reaches is reached by the
\* run without these calls
CallsLeft ==
  /\ Len(ceCalls) < MaxClusterCalls
  /\ ceCalls # <<>> => ~WritesNothing(ceCalls[Len(ceCalls)])

\* a ClusterEngine call returns
Called(call) ==
  /\ CallsLeft
  /\ ceCalls' = Append(ceCalls, call)
  /\ UNCHANGED <<config, scoreVars, managerVars, monitorVars>>

\* the ticks of the clock in one run
MaxClock == 1

\* time.Now() read when the last reading was t: the time does not go back,
\* and it may or may not have advanced
TimeNow(t) == IF t < MaxClock THEN {t, t + 1} ELSE {t}

\* best is the cluster findBestCluster returned, "" if it found none; a join
\* reads the time once (now), a creation twice (first for FirstSeen, then now
\* for LastSeen)
AddDomainToClusterAt(best, domain, signals, first, now) ==
  /\ clock' = now
  /\ Called([op |-> "AddDomainToCluster", domain |-> domain, signals |-> signals,
             best |-> best,
             ret |-> IF best # "" THEN best ELSE generateClusterID(domain, signals)])
  /\ Clusters' =
       IF best # ""
         THEN [Clusters EXCEPT ![best] = JoinCluster(@, domain, signals, now)]
         ELSE MapPut(Clusters, generateClusterID(domain, signals),
                     NewCluster(domain, signals, first, now))

AddDomainToCluster(domain, signals) ==
  /\ CallsLeft
  /\ \E candidates \in {findBestCluster(Clusters, signals)} :
       \E best \in (IF candidates = {} THEN {""} ELSE candidates) :
         \E first \in TimeNow(clock) :
           \E now \in (IF best = "" THEN TimeNow(first) ELSE {first}) :
             AddDomainToClusterAt(best, domain, signals, first, now)

UpdateClusterConfidence(clusterID) ==
  /\ Called([op |-> "UpdateClusterConfidence", id |-> clusterID,
             exists |-> clusterID \in DOMAIN Clusters])
  /\ Clusters' =
       IF clusterID \in DOMAIN Clusters
         THEN [Clusters EXCEPT ![clusterID].Confidence = ClusterConfidence(Clusters[clusterID])]
         ELSE Clusters
  /\ UNCHANGED clock

\* mutant: a merge that fails deletes the first cluster
MergeClusters_DeletesFirst(clusterID1, clusterID2) ==
  /\ UNCHANGED clock
  /\ IF clusterID1 \notin DOMAIN Clusters \/ clusterID2 \notin DOMAIN Clusters
       THEN /\ Called([op |-> "MergeClusters", id1 |-> clusterID1, id2 |-> clusterID2,
                       err |-> "one or both clusters do not exist"])
            /\ Clusters' = MapDelete(Clusters, clusterID1)
       ELSE /\ Called([op |-> "MergeClusters", id1 |-> clusterID1, id2 |-> clusterID2,
                       err |-> NoError])
            /\ Clusters' =
                 MapDelete(MapPut(Clusters, clusterID1,
                                  MergedCluster(Clusters[clusterID1], Clusters[clusterID2])),
                           clusterID2)

MergeClusters(clusterID1, clusterID2) ==
  /\ UNCHANGED clock
  /\ IF clusterID1 \notin DOMAIN Clusters \/ clusterID2 \notin DOMAIN Clusters
       THEN /\ Called([op |-> "MergeClusters", id1 |-> clusterID1, id2 |-> clusterID2,
                       err |-> "one or both clusters do not exist"])
            /\ UNCHANGED Clusters
       ELSE /\ Called([op |-> "MergeClusters", id1 |-> clusterID1, id2 |-> clusterID2,
                       err |-> NoError])
            /\ Clusters' =
                 MapDelete(MapPut(Clusters, clusterID1,
                                  MergedCluster(Clusters[clusterID1], Clusters[clusterID2])),
                           clusterID2)

\* GetClusterForDomain: the clusters it can return for a domain (none: not found)
GetClusterForDomain(domain) ==
  {id \in DOMAIN Clusters :
     \E i \in 1..Len(Clusters[id].Domains) : Clusters[id].Domains[i] = domain}

\* the orders in which a range over the clusters ids can list them
Orderings(ids) ==
  {list \in [1..Cardinality(ids) -> ids] :
     \A i, j \in 1..Cardinality(ids) : i # j => list[i] # list[j]}

\* a query returns: the registry is only read
Queried(call) ==
  /\ Called(call)
  /\ UNCHANGED <<Clusters, clock>>

\* mutant: a lookup that enters the id it did not find
GetCluster_Creates(clusterID) ==
  /\ Called([op |-> "GetCluster", id |-> clusterID, exists |-> clusterID \in DOMAIN Clusters])
  /\ Clusters' =
       IF clusterID \in DOMAIN Clusters THEN Clusters
       ELSE (clusterID :> Cluster(clusterID, FZero, <<>>, <<>>, clock, clock, NoResources))
              @@ Clusters
  /\ UNCHANGED clock

GetCluster(clusterID) ==
  Queried([op |-> "GetCluster", id |-> clusterID, exists |-> clusterID \in DOMAIN Clusters])

\* the clusters in map order, sorted by LastSeen, latest first (sort.Slice is
\* not stable: clusters with one LastSeen come in any order)
AllClustersSorted ==
  {list \in Orderings(DOMAIN Clusters) :
     \A i, j \in 1..Len(list) :
        i < j => ~(Clusters[list[j]].LastSeen > Clusters[list[i]].LastSeen)}

GetAllClusters ==
  /\ CallsLeft
  /\ \E clusters \in AllClustersSorted :
       Queried([op |-> "GetAllClusters", ret |-> clusters])

\* found is the cluster the range over the map met first, "" if none holds domain
GetClusterForDomainReturns(domain) ==
  /\ CallsLeft
  /\ \E found \in IF GetClusterForDomain(domain) = {} THEN {""}
                  ELSE GetClusterForDomain(domain) :
       Queried([op |-> "GetClusterForDomain", domain |-> domain, ret |-> found,
                exists |-> found # ""])

\* GetAllClusters sorted again by Confidence, highest first: sort.Slice sorts
\* fewer than 12 elements by insertion, so clusters of one Confidence stay in
\* the order GetAllClusters gave them
GetClustersByConfidence ==
  /\ CallsLeft
  /\ \E clusters \in
         {list \in Orderings(DOMAIN Clusters) :
            \A i, j \in 1..Len(list) :
               i < j =>
                 /\ ~FGt(Clusters[list[j]].Confidence, Clusters[list[i]].Confidence)
                 /\ FEq(Clusters[list[j]].Confidence, Clusters[list[i]].Confidence)
                      => ~(Clusters[list[j]].LastSeen > Clusters[list[i]].LastSeen)} :
       Queried([op |-> "GetClustersByConfidence", ret |-> clusters])

FindClustersByResource(resourceType, resourceValue) ==
  /\ CallsLeft
  /\ \E matchingClusters \in
         Orderings({id \in DOMAIN Clusters :
                      /\ resourceType \in DOMAIN Clusters[id].SharedResources
                      /\ Clusters[id].SharedResources[resourceType] = resourceValue}) :
       Queried([op |-> "FindClustersByResource", type |-> resourceType,
                value |-> resourceValue, ret |-> matchingClusters])

RECURSIVE TotalDomains(_)
TotalDomains(ids) ==
  IF ids = {} THEN 0
  ELSE LET id == CHOOSE x \in ids : TRUE
       IN  Len(Clusters[id].Domains) + TotalDomains(ids \ {id})

GetClusterStatistics ==
  /\ CallsLeft
  /\ Queried([op |-> "GetClusterStatistics",
              total_clusters |-> Cardinality(DOMAIN Clusters),
              total_domains |-> TotalDomains(DOMAIN Clusters),
              high_confidence_clusters |->
                 Cardinality({id \in DOMAIN Clusters :
                                FGe(Clusters[id].Confidence, Dec(7, 1))}),
              avg_domains_per_cluster |->
                 IF Cardinality(DOMAIN Clusters) > 0
                   THEN FDivInt(TotalDomains(DOMAIN Clusters), Cardinality(DOMAIN Clusters))
                   ELSE FZero])

\* the resources asked for: one some analysis carries, one none does
ClusterResources == {<<"ip", "1.2.3.4">>, <<"ip", "9.9.9.9">>}

NextCluster ==
  \/ \E domain \in ClusterDomains, signals \in ClusterAnalyses :
       AddDomainToCluster(domain, signals)
  \/ \E clusterID \in DOMAIN Clusters \cup {UnknownCluster} :
       UpdateClusterConfidence(clusterID)
  \/ \E clusterID1, clusterID2 \in DOMAIN Clusters \cup {UnknownCluster} :
       MergeClusters(clusterID1, clusterID2)
  \/ \E clusterID \in DOMAIN Clusters \cup {UnknownCluster} :
       GetCluster(clusterID)
  \/ GetAllClusters
  \/ \E domain \in ClusterDomains :
       GetClusterForDomainReturns(domain)
  \/ GetClustersByConfidence
  \/ \E resource \in ClusterResources :
       FindClustersByResource(resource[1], resource[2])
  \/ GetClusterStatistics

SpecCluster == InitCluster /\ [][NextCluster]_vars

(***************************************************************************)
(* Claims about the Cluster Engine (SpecCluster).                          *)
(***************************************************************************)
\* an INFRA "origin IP" signal that names an IP address
IsOriginIPSignal(signal) ==
  /\ signal.Category = "INFRA"
  /\ ContainsPhrase(signal.Description, "origin", {"IP"})
  /\ extractIPFromDescription(signal.Description) # ""

\* both signal lists carry one and the same origin IP signal
ShareOriginIPSignal(signals1, signals2) ==
  \E i \in 1..Len(signals1), j \in 1..Len(signals2) :
    signals1[i] = signals2[j] /\ IsOriginIPSignal(signals1[i])

\* C5: from an empty registry, two different domains that each carry an
\* identical INFRA origin IP signal are in the same cluster after both have
\* been added: the second call returns the first call's id and the registry
\* holds exactly one cluster.
C5_SharedOriginIPSameCluster ==
  ( /\ Len(ceCalls) = 2
    /\ ceCalls[1].op = "AddDomainToCluster" /\ ceCalls[2].op = "AddDomainToCluster"
    /\ ceCalls[1].domain # ceCalls[2].domain
    /\ ShareOriginIPSignal(ceCalls[1].signals, ceCalls[2].signals) )
  => /\ ceCalls[2].ret = ceCalls[1].ret
     /\ Cardinality(DOMAIN Clusters) = 1
     /\ GetClusterForDomain(ceCalls[1].domain) = {ceCalls[1].ret}
     /\ GetClusterForDomain(ceCalls[2].domain) = {ceCalls[1].ret}


(***************************************************************************)
(* Monitor (internal/analyzer/monitor.go).  monitors holds the             *)
(* DomainMonitor objects in the order AddDomain allocated them; Monitor's  *)
(* map and the callers refer to an object by its index.  Every object      *)
(* carries the position of its runMonitor goroutine:                       *)
(*   "new"     allocated by AddDomain, whose initial scan is in flight;    *)
(*             the goroutine is not started yet                            *)
(*   "select"  waiting in the select for the ticker or the stop channel    *)
(*   "tick"    has received from ticker.C, about to read monitor.Active    *)
(*   "scan"    inside AnalyzeDomain                                        *)
(*   "analyze" has read monitor.Active as true, about to call AnalyzeDomain *)
(*   "store"   AnalyzeDomain has returned result; about to compare it with *)
(*             LastResult and append to Changes                            *)
(*   "assign"  past the comparison and the append, in or after the Printf  *)
(*             of the change; about to assign LastResult                   *)
(*   "exited"  returned                                                    *)
(* The goroutine takes no lock.  Its read of Active races with the writes  *)
(* of the calls: no write happens before it but the one of AddDomain, so   *)
(* it observes any value written to the field so far (ActiveWrites).  The  *)
(* read of the Changes slice header by GetChanges races with the           *)
(* goroutine's append and may see either header or a mix.                  *)
(***************************************************************************)
MaxMonitors == 2

MaxMonitorCalls == 3

\* scans one task starts in a run: its ticker fires no more once the task has
\* started that many
MaxScans == 1

MonitorDomains == {"a.com"}

MonitorIntervals == {60}

\* what the collaborators can produce for a scan: no signal (also the outcome
\* of a scan that fails), or signals
MonitorScans ==
  { <<>>,
    <<Signal("ux_a", "UX", <<>>, 100), Signal("pay_a", "PAYMENT", <<>>, 90)>>,
    <<Signal("ux_a", "UX", <<>>, 10), Signal("pay_a", "PAYMENT", <<>>, 20),
      Signal("infra_a", "INFRA", <<>>, 10)>> }

\* the object AddDomain allocates; Scans counts the scans its goroutine started
\* and result is the goroutine's local variable
DomainMonitor(domain, interval) ==
  [Domain |-> domain, LastResult |-> NoResult, Changes |-> <<>>,
   Interval |-> interval, Active |-> TRUE, ActiveWrites |-> {TRUE}, StopChan |-> 0,
   pc |-> "new", result |-> NoResult, Scans |-> 0]

Registered == {domains[d] : d \in DOMAIN domains}

\* the signals of newSignals whose id oldSignals does not hold, in order
RECURSIVE NewSignals(_, _)
NewSignals(oldSignals, newSignals) ==
  IF newSignals = <<>> THEN <<>>
  ELSE IF \E i \in 1..Len(oldSignals) : oldSignals[i].SignalID = Head(newSignals).SignalID
    THEN NewSignals(oldSignals, Tail(newSignals))
  ELSE <<Head(newSignals)>> \o NewSignals(oldSignals, Tail(newSignals))

\* the signal detectChanges adds for a score change; its description holds
\* the two scores
ScoreChangeSignal(oldScore, newScore) ==
  Signal("jli_score_change", "MONITOR",
         <<"JLI", "score", "changed", "from", oldScore, "to", newScore>>, 100)

\* mutant: a difference of exactly 0.1 counts as a change
SignificantChange_Inclusive(scoreDiff) ==
  FGe(scoreDiff, Dec(1, 1)) \/ FLe(scoreDiff, FNeg(Dec(1, 1)))

SignificantChange(scoreDiff) ==
  FGt(scoreDiff, Dec(1, 1)) \/ FLt(scoreDiff, FNeg(Dec(1, 1)))

detectChanges(oldResult, newResult) ==
  NewSignals(oldResult.Signals, newResult.Signals) \o
    (IF SignificantChange(FSub(newResult.JLIScore, oldResult.JLIScore))
       THEN <<ScoreChangeSignal(oldResult.JLIScore, newResult.JLIScore)>>
       ELSE <<>>)

ChangeRecord(oldScore, newScore, changes) ==
  [OldScore |-> oldScore, NewScore |-> newScore, Reason |-> Len(changes),
   Signals |-> changes]

\* monitor.Changes after the goroutine has compared result with LastResult
RecordChanges(monitor, changes) ==
  IF Len(changes) > 0
    THEN Append(monitor.Changes,
                ChangeRecord(monitor.LastResult.JLIScore, monitor.result.JLIScore,
                             changes))
    ELSE monitor.Changes

\* AnalyzeDomain(domain, 10*time.Second, "standard") for each outcome of
\* the collaborators, under the configuration cfg
MonitorAnalyses(outcomes, cfg) ==
  [signals \in outcomes |-> Analysis(signals, cfg, "standard")]

\* AnalyzeDomain(monitor.Domain, 10*time.Second, "standard"): no call of the
\* Monitor changes the configuration, so that the result is the one in scans
MonitorAnalysis(signals) == scans[signals]

\* NewMonitor
InitMonitor ==
  /\ NewMonitor
  /\ config = GetDefaultConfig
  /\ scans = MonitorAnalyses(MonitorScans, GetDefaultConfig)
  /\ allSignals = <<>> /\ result = NoResult
  /\ ManagerIdle /\ ClusterIdle

\* the scans of the runs in which the goroutines are followed to their end: a
\* scan that fails or finds no signal, and one that finds signals
LiveScans ==
  { <<>>,
    <<Signal("ux_a", "UX", <<>>, 100), Signal("pay_a", "PAYMENT", <<>>, 90)>> }

InitMonitorLive ==
  /\ NewMonitor
  /\ config = GetDefaultConfig
  /\ scans = MonitorAnalyses(LiveScans, GetDefaultConfig)
  /\ allSignals = <<>> /\ result = NoResult
  /\ ManagerIdle /\ ClusterIdle

NotMonitor == <<config, scoreVars, managerVars, clusterVars>>

\* mutant: a call for a missing domain returns no error
NotMonitored_Silent(op, domain) ==
  /\ domain \notin DOMAIN domains
  /\ mCall' = [op |-> op, domain |-> domain, err |-> NoError]
  /\ UNCHANGED <<domains, monitors, mu>>

\* a call that takes the lock, finds domain missing and returns the error
NotMonitored(op, domain) ==
  /\ domain \notin DOMAIN domains
  /\ mCall' = [op |-> op, domain |-> domain, err |-> "not being monitored"]
  /\ UNCHANGED <<domains, monitors, mu>>

\* a call starts: it can take the lock only when AddDomain does not hold it
Calling ==
  /\ mu = Unlocked
  /\ mCalls < MaxMonitorCalls
  /\ mCalls' = mCalls + 1
  /\ UNCHANGED <<scans, NotMonitor>>

\* AddDomain up to its call of AnalyzeDomain: it keeps the lock while it scans
AddDomain(domain, interval) ==
  /\ Calling
  /\ IF domain \in DOMAIN domains
       THEN /\ mCall' = [op |-> "AddDomain", domain |-> domain,
                         err |-> "already being monitored"]
            /\ UNCHANGED <<domains, monitors, mu>>
       ELSE /\ Len(monitors) < MaxMonitors
            /\ monitors' = Append(monitors, DomainMonitor(domain, interval))
            /\ domains' = MapPut(domains, domain, Len(monitors) + 1)
            /\ mu' = [op |-> "AddDomain", monitor |-> Len(monitors) + 1]
            /\ UNCHANGED mCall

\* AddDomain from the return of its initial scan: store, go runMonitor, unlock
AddDomainScanned(signals) ==
  /\ mu.op = "AddDomain"
  /\ \E scanned \in {MonitorAnalysis(signals)} :
       monitors' = [monitors EXCEPT ![mu.monitor].LastResult = scanned,
                                       ![mu.monitor].pc = "select"]
  /\ mu' = Unlocked
  /\ mCall' = [op |-> "AddDomain", domain |-> monitors[mu.monitor].Domain,
               err |-> NoError]
  /\ UNCHANGED <<domains, mCalls, scans, NotMonitor>>

\* a send on a channel: a count above the capacity 1 is a sender that blocks
Send(chan) == chan + 1

\* mutant: the stopped task stays in the registry
RemoveDomain_KeepsEntry(domain) ==
  /\ Calling
  /\ \/ NotMonitored("RemoveDomain", domain)
     \/ /\ domain \in DOMAIN domains
        /\ monitors' = [monitors EXCEPT ![domains[domain]].Active = FALSE,
                                        ![domains[domain]].ActiveWrites = @ \cup {FALSE},
                                        ![domains[domain]].StopChan = Send(@)]
        /\ mCall' = [op |-> "RemoveDomain", domain |-> domain, err |-> NoError]
        /\ UNCHANGED <<domains, mu>>

RemoveDomain(domain) ==
  /\ Calling
  /\ \/ NotMonitored("RemoveDomain", domain)
     \/ /\ domain \in DOMAIN domains
        /\ monitors' = [monitors EXCEPT ![domains[domain]].Active = FALSE,
                                        ![domains[domain]].ActiveWrites = @ \cup {FALSE},
                                        ![domains[domain]].StopChan = Send(@)]
        /\ domains' = MapDelete(domains, domain)
        /\ mCall' = [op |-> "RemoveDomain", domain |-> domain, err |-> NoError]
        /\ UNCHANGED mu

\* the body PauseMonitoring and ResumeMonitoring share
SetActive(op, domain, active) ==
  /\ \/ NotMonitored(op, domain)
     \/ /\ domain \in DOMAIN domains
        /\ monitors' = [monitors EXCEPT ![domains[domain]].Active = active,
                                        ![domains[domain]].ActiveWrites = @ \cup {active}]
        /\ mCall' = [op |-> op, domain |-> domain, err |-> NoError]
        /\ UNCHANGED <<domains, mu>>

PauseMonitoring(domain) ==
  /\ Calling
  /\ SetActive("PauseMonitoring", domain, FALSE)

ResumeMonitoring(domain) ==
  /\ Calling
  /\ SetActive("ResumeMonitoring", domain, TRUE)

StopAll ==
  /\ Calling
  /\ monitors' = [id \in 1..Len(monitors) |->
                    IF id \in Registered
                      THEN [monitors[id] EXCEPT !.Active = FALSE,
                                                !.ActiveWrites = @ \cup {FALSE},
                                                !.StopChan = Send(@)]
                      ELSE monitors[id]]
  /\ domains' = <<>>
  /\ mCall' = [op |-> "StopAll"]
  /\ UNCHANGED mu

\* an element read past the end of the slice's old array
TornRecord == [torn |-> TRUE]

\* monitor.Changes as GetChanges can read it: the RLock does not exclude the
\* goroutine, so that while the goroutine is about to append a record (which
\* reallocates the array: the capacities are 0, 1, 2, 4) the read of pointer,
\* length and capacity sees the old header, the new one, or the new length
\* with the old pointer
ChangesRead(monitor) ==
  {monitor.Changes} \cup
  ( IF monitor.pc = "store" /\ monitor.LastResult.done
       /\ detectChanges(monitor.LastResult, monitor.result) # <<>>
      THEN { RecordChanges(monitor, detectChanges(monitor.LastResult, monitor.result)),
             Append(monitor.Changes, TornRecord) }
      ELSE {} )

GetChanges(domain) ==
  /\ Calling
  /\ \/ NotMonitored("GetChanges", domain)
     \/ /\ domain \in DOMAIN domains
        /\ \E changes \in ChangesRead(monitors[domains[domain]]) :
             mCall' = [op |-> "GetChanges", domain |-> domain, err |-> NoError,
                       ret |-> changes]
        /\ UNCHANGED <<domains, monitors, mu>>

GetAllMonitoredDomains ==
  /\ Calling
  /\ mCall' = [op |-> "GetAllMonitoredDomains", ret |-> DOMAIN domains]
  /\ UNCHANGED <<domains, monitors, mu>>

\* returns the *DomainMonitor itself
GetDomainStatus(domain) ==
  /\ Calling
  /\ \/ NotMonitored("GetDomainStatus", domain)
     \/ /\ domain \in DOMAIN domains
        /\ mCall' = [op |-> "GetDomainStatus", domain |-> domain, err |-> NoError,
                     ret |-> domains[domain]]
        /\ UNCHANGED <<domains, monitors, mu>>

\* a step of the goroutine of monitors[id]: it takes no lock
TaskStep(id, monitor) ==
  /\ monitors' = [monitors EXCEPT ![id] = monitor]
  /\ UNCHANGED <<domains, mu, mCall, mCalls, scans, NotMonitor>>

\* case <-ticker.C: the ticker fires while the run has ticks left for the task
TickFires(id) ==
  /\ monitors[id].pc = "select"
  /\ monitors[id].Scans < MaxScans
  /\ TaskStep(id, [monitors[id] EXCEPT !.pc = "tick"])

\* case <-monitor.StopChan
StopReceived(id) ==
  /\ monitors[id].pc = "select"
  /\ monitors[id].StopChan > 0
  /\ TaskStep(id, [monitors[id] EXCEPT !.pc = "exited", !.StopChan = @ - 1])

\* line 99, if !monitor.Active { return }: active is the value the read observes
CheckActive(id) ==
  /\ monitors[id].pc = "tick"
  /\ \E active \in monitors[id].ActiveWrites :
       TaskStep(id, [monitors[id] EXCEPT !.pc = IF active THEN "analyze" ELSE "exited"])

\* line 104: the goroutine calls AnalyzeDomain
StartScan(id) ==
  /\ monitors[id].pc = "analyze"
  /\ TaskStep(id, [monitors[id] EXCEPT !.pc = "scan", !.Scans = @ + 1])

\* AnalyzeDomain returns
ScanReturns(id, signals) ==
  /\ monitors[id].pc = "scan"
  /\ \E scanned \in {MonitorAnalysis(signals)} :
       TaskStep(id, [monitors[id] EXCEPT !.pc = "store", !.result = scanned])

\* lines 107-118: compare with LastResult and append to Changes; the Printf
\* of line 120 follows, during which the goroutine can be suspended
AppendChange(id) ==
  /\ monitors[id].pc = "store"
  /\ TaskStep(id,
       [monitors[id] EXCEPT
          !.Changes = IF monitors[id].LastResult.done
                        THEN RecordChanges(monitors[id],
                               detectChanges(monitors[id].LastResult, monitors[id].result))
                        ELSE @,
          !.pc = "assign"])

\* line 126: monitor.LastResult = result
StoreResult(id) ==
  /\ monitors[id].pc = "assign"
  /\ TaskStep(id,
       [monitors[id] EXCEPT
          !.LastResult = monitors[id].result,
          !.result = NoResult,
          !.pc = "select"])

\* the steps of the goroutine of monitors[id]
runMonitor(id) ==
  \/ TickFires(id)
  \/ StopReceived(id)
  \/ CheckActive(id)
  \/ StartScan(id)
  \/ \E signals \in DOMAIN scans : ScanReturns(id, signals)
  \/ AppendChange(id)
  \/ StoreResult(id)

NextMonitor ==
  \/ \E domain \in MonitorDomains, interval \in MonitorIntervals :
       AddDomain(domain, interval)
  \/ \E signals \in DOMAIN scans : AddDomainScanned(signals)
  \/ \E domain \in MonitorDomains : RemoveDomain(domain)
  \/ \E domain \in MonitorDomains : PauseMonitoring(domain)
  \/ \E domain \in MonitorDomains : ResumeMonitoring(domain)
  \/ StopAll
  \/ \E domain \in MonitorDomains : GetChanges(domain)
  \/ GetAllMonitoredDomains
  \/ \E domain \in MonitorDomains : GetDomainStatus(domain)
  \/ \E id \in 1..Len(monitors) : TickFires(id)
  \/ \E id \in 1..Len(monitors) : StopReceived(id)
  \/ \E id \in 1..Len(monitors) : CheckActive(id)
  \/ \E id \in 1..Len(monitors) : StartScan(id)
  \/ \E id \in 1..Len(monitors), signals \in DOMAIN scans : ScanReturns(id, signals)
  \/ \E id \in 1..Len(monitors) : AppendChange(id)
  \/ \E id \in 1..Len(monitors) : StoreResult(id)

SpecMonitor == InitMonitor /\ [][NextMonitor]_vars

\* ENABLED <<runMonitor(id)>>_vars written out: the goroutine of monitors[id]
\* has a step to take (every step of runMonitor changes pc)
TaskEnabled(id) ==
  /\ id <= Len(monitors)
  /\ \/ monitors[id].pc \in {"tick", "analyze", "scan", "store", "assign"}
     \/ /\ monitors[id].pc = "select"
        /\ (monitors[id].StopChan > 0 \/ monitors[id].Scans < MaxScans)

\* <<runMonitor(id)>>_vars told by its effect: of the steps of NextMonitor,
\* those of runMonitor(id) are the ones that move an enabled goroutine's pc
TaskRuns(id) == TaskEnabled(id) /\ monitors'[id].pc # monitors[id].pc

TaskRunsIsRunMonitor ==
  [][\A id \in 1..MaxMonitors :
       TaskRuns(id) <=> (id <= Len(monitors) /\ runMonitor(id))]_vars

\* WF_vars(runMonitor(id)), with TaskEnabled(id) for its ENABLED and
\* TaskRuns(id) for its steps
TaskFair(id) ==
  \/ []<>~TaskEnabled(id)
  \/ []<><<TaskRuns(id)>>_vars

\* the Go scheduler runs every goroutine, the ticker keeps firing and a scan
\* returns (its HTTP client has a timeout)
SpecMonitorLive ==
  /\ InitMonitorLive
  /\ [][NextMonitor]_vars
  /\ \A id \in 1..MaxMonitors : TaskFair(id)


(***************************************************************************)
(* Claims about the Monitor (SpecMonitor, SpecMonitorLive).                *)
(***************************************************************************)
\* a scan (an AnalyzeDomain call) of monitors[id].Domain is in flight: the
\* initial scan of AddDomain, or a scan of the goroutine
Scanning(id) == monitors[id].pc \in {"new", "scan"}

ScansInFlight(domain) ==
  {id \in 1..Len(monitors) : monitors[id].Domain = domain /\ Scanning(id)}

\* C6: under every interleaving of the calls and the timer firings, at most
\* one scan for a given domain name is in flight at any moment.
C6_ScansNeverOverlap ==
  \A domain \in MonitorDomains : Cardinality(ScansInFlight(domain)) <= 1

\* C7: no scan runs while the registry lock is held, the initial scan of
\* AddDomain included, so that other calls can take the lock meanwhile.
C7_NoScanUnderLock ==
  (\E id \in 1..Len(monitors) : Scanning(id)) => mu = Unlocked

\* C8: a goroutine writes LastResult and Changes, and reads Active, only while
\* it holds the registry lock.
C8_TaskStateUnderLock ==
  \A id \in 1..Len(monitors) :
    monitors[id].pc \in {"tick", "store", "assign"} =>
      mu = [op |-> "runMonitor", monitor |-> id]

\* C9: a monitored domain that is active (added, or resumed after a pause)
\* has a goroutine that can scan again: it has not returned.
C9_ResumedTaskAlive ==
  \A domain \in DOMAIN domains :
    monitors[domains[domain]].Active => monitors[domains[domain]].pc # "exited"


\* monitors[id] has been removed from the registry (RemoveDomain or StopAll)
Removed(id) == id \in 1..Len(monitors) /\ id \notin Registered

\* once a successful RemoveDomain has returned the domain is absent, and a
\* removed goroutine's Active flag stays false
C10_RemovedState ==
  /\ (mCall.op = "RemoveDomain" /\ mCall.err = NoError /\ mu = Unlocked)
       => mCall.domain \notin DOMAIN domains
  /\ \A id \in 1..Len(monitors) : Removed(id) => ~monitors[id].Active

\* a removed goroutine stays removed and starts no scan; a scan in flight is
\* left to return and its result is stored, also by the removing step itself
C10_RemovedStep ==
  \A id \in 1..Len(monitors) :
    /\ Removed(id) =>
         /\ Removed(id)'
         /\ monitors[id].pc # "scan" => monitors'[id].pc # "scan"
    /\ (Removed(id)' /\ monitors[id].pc = "scan") =>
         monitors'[id].pc \in {"scan", "store"}
    /\ (Removed(id)' /\ monitors[id].pc = "store") =>
         monitors'[id].pc \in {"store", "assign"}
    /\ (Removed(id)' /\ monitors[id].pc = "assign") =>
         \/ monitors'[id].pc = "assign"
         \/ /\ monitors'[id].pc = "select"
            /\ monitors'[id].LastResult = monitors[id].result

\* C10: after a successful RemoveDomain the domain is absent from the
\* registry, the removed goroutine starts no new scan and eventually returns,
\* a scan in flight is not interrupted, and no Pause or Resume reactivates it.
C10_RemovedIsTerminal ==
  /\ []C10_RemovedState
  /\ [][C10_RemovedStep]_vars
  /\ \A id \in 1..MaxMonitors :
       (id <= Len(monitors) /\ Removed(id)) ~>
         (id <= Len(monitors) /\ monitors[id].pc = "exited")


\* StopAll has returned and no call has been made since
StopAllReturned == mCall.op = "StopAll" /\ mu = Unlocked

\* a step that is the call of StopAll
StopAllStep ==
  mCalls' = mCalls + 1 /\ mCall'.op = "StopAll" /\ mu' = Unlocked

\* what a StopAll step and the steps after it do: the call empties the
\* registry and leaves every goroutine that was registered inactive with a stop
\* to receive (or already returned); a GetAllMonitoredDomains that follows
\* returns no domain; no goroutine out of the registry starts a scan
C11_StopAllStep ==
  /\ StopAllStep =>
       /\ domains' = <<>>
       /\ \A id \in Registered :
            /\ ~monitors'[id].Active
            /\ monitors'[id].StopChan = 1
            /\ monitors'[id].pc = monitors[id].pc
  /\ (StopAllReturned /\ mCall'.op = "GetAllMonitoredDomains") => mCall'.ret = {}
  /\ \A id \in 1..Len(monitors) :
       (id \notin Registered /\ monitors[id].pc # "scan") => monitors'[id].pc # "scan"

\* C11: after StopAll returns the registry is empty and every goroutine that
\* was registered (active, paused or in a scan) eventually returns without
\* starting a scan after StopAll returned.
C11_StopAllTerminates ==
  /\ [](StopAllReturned => domains = <<>>)
  /\ [][C11_StopAllStep]_vars
  /\ \A id \in 1..MaxMonitors :
       (StopAllReturned /\ id <= Len(monitors)) ~>
         (id <= Len(monitors) /\ monitors[id].pc = "exited")



(***************************************************************************)
(* Claims about the ticks of runMonitor (SpecMonitor).                     *)
(***************************************************************************)
\* the step in which the goroutine of monitors[id] compares the result of a
\* scan with the previous one
CompareStep(id) == monitors[id].pc = "store" /\ monitors'[id].pc = "assign"

\* the step in which the goroutine of monitors[id] stores the result of a scan
StoreStep(id) == monitors[id].pc = "assign" /\ monitors'[id].pc = "select"

\* newResult holds a signal id that oldResult does not hold
HasNewSignalID(oldResult, newResult) ==
  \E i \in 1..Len(newResult.Signals) :
    \A j \in 1..Len(oldResult.Signals) :
      oldResult.Signals[j].SignalID # newResult.Signals[i].SignalID

\* the absolute difference of the two scores exceeds 0.1
ScoreDeltaExceeds(oldResult, newResult) ==
  \/ FGt(FSub(newResult.JLIScore, oldResult.JLIScore), Dec(1, 1))
  \/ FGt(FSub(oldResult.JLIScore, newResult.JLIScore), Dec(1, 1))

\* changes is log with one record appended, holding the two scores
AppendsOneRecord(log, changes, oldResult, newResult) ==
  /\ Len(changes) = Len(log) + 1
  /\ SubSeq(changes, 1, Len(log)) = log
  /\ changes[Len(changes)].OldScore = oldResult.JLIScore
  /\ changes[Len(changes)].NewScore = newResult.JLIScore

C12_ChangeLogStep ==
  \A id \in 1..Len(monitors) :
    IF CompareStep(id)
         /\ \/ HasNewSignalID(monitors[id].LastResult, monitors[id].result)
            \/ ScoreDeltaExceeds(monitors[id].LastResult, monitors[id].result)
      THEN AppendsOneRecord(monitors[id].Changes, monitors'[id].Changes,
                            monitors[id].LastResult, monitors[id].result)
      ELSE monitors'[id].Changes = monitors[id].Changes

\* C12: a tick that completes a scan appends exactly one ChangeRecord with the
\* old and the new score when the scores differ by more than 0.1 or the new
\* result holds a signal id the previous one did not; otherwise it appends
\* nothing, and no step modifies or removes a record.
C12_ChangeRecordAppended == [][C12_ChangeLogStep]_vars

\* C12 witness: a stored scan that brought no new signal id and a record with
\* the score change alone
C12_Witness ==
  \E id \in 1..Len(monitors) :
    /\ monitors[id].pc = "select"
    /\ monitors[id].Scans > 0
    /\ Len(monitors[id].Changes) = 1
    /\ Len(monitors[id].Changes[1].Signals) = 1
    /\ monitors[id].Changes[1].Signals[1].SignalID = "jli_score_change"
    /\ monitors[id].Changes[1].NewScore = monitors[id].LastResult.JLIScore
    /\ monitors[id].Changes[1].OldScore # monitors[id].Changes[1].NewScore


\* what AnalyzeDomain returns when the scan fails: ScanDomain returns no
\* signal and an empty body, which yields no signal either
FailedScan(scanned) == scanned.done /\ scanned.Signals = <<>>

\* C13: a tick whose scan fails appends no ChangeRecord and keeps the
\* baseline result; the task stays registered and active and returns to wait
\* for its next tick.
C13_FailedScanNoEvidence ==
  [][\A id \in 1..Len(monitors) :
       ((CompareStep(id) \/ StoreStep(id)) /\ FailedScan(monitors[id].result)) =>
         /\ monitors'[id].Changes = monitors[id].Changes
         /\ monitors'[id].LastResult = monitors[id].LastResult
         /\ monitors'[id].Active = monitors[id].Active
         /\ domains' = domains]_vars


(***************************************************************************)
(* Claims about the errors of the Monitor (SpecMonitor).                   *)
(***************************************************************************)
\* a step in which a call of the Monitor is made and returns
ReturningCall == mCalls' = mCalls + 1 /\ mu' = Unlocked

\* the calls that address a domain of the registry
AddressingCalls ==
  {"RemoveDomain", "PauseMonitoring", "ResumeMonitoring", "GetChanges",
   "GetDomainStatus"}

C14_NoPartialEffectStep ==
  /\ (ReturningCall /\ mCall'.op \in AddressingCalls) =>
       IF mCall'.domain \in DOMAIN domains
         THEN mCall'.err = NoError
         ELSE /\ mCall'.err = "not being monitored"
              /\ domains' = domains
              /\ monitors' = monitors
  /\ (ReturningCall /\ mCall'.op = "AddDomain") =>
       /\ mCall'.domain \in DOMAIN domains
       /\ mCall'.err = "already being monitored"
       /\ domains' = domains
       /\ monitors' = monitors
  /\ Len(monitors') > Len(monitors) =>
       /\ monitors'[Len(monitors')].Domain \notin DOMAIN domains
       /\ mu'.op = "AddDomain"

\* C14: RemoveDomain, PauseMonitoring, ResumeMonitoring, GetChanges and
\* GetDomainStatus for a domain not in the registry return the not-found
\* error and change neither the registry nor any task; AddDomain for a
\* monitored domain returns an error, allocates no task, scans nothing and
\* leaves the existing task as it is.
C14_NoPartialEffect == [][C14_NoPartialEffectStep]_vars

\* C14 witness: ResumeMonitoring has returned the error for a domain that was
\* removed, whose task is still there and inactive
C14_Witness ==
  /\ mCall.op = "ResumeMonitoring"
  /\ mCall.err = "not being monitored"
  /\ mCall.domain \notin DOMAIN domains
  /\ \E id \in 1..Len(monitors) :
       monitors[id].Domain = mCall.domain /\ ~monitors[id].Active


(***************************************************************************)
(* Claims about MergeClusters and the registry (SpecCluster).              *)
(***************************************************************************)
\* the call that returns in this step
ReturnedCall == ceCalls'[Len(ceCalls')]

\* a step in which a call of op returns
ClusterCallStep(op) == Len(ceCalls') = Len(ceCalls) + 1 /\ ReturnedCall.op = op

Elements(list) == {list[i] : i \in 1..Len(list)}

\* merged is cluster1 with cluster2 merged into it, as C15 describes it
MergedAsSpecified(merged, cluster1, cluster2) ==
  /\ Elements(merged.Domains) = Elements(cluster1.Domains) \cup Elements(cluster2.Domains)
  /\ Elements(merged.SharedSignals) =
       Elements(cluster1.SharedSignals) \cup Elements(cluster2.SharedSignals)
  /\ merged.SharedResources =
       [t \in DOMAIN cluster1.SharedResources \cup DOMAIN cluster2.SharedResources |->
          IF t \in DOMAIN cluster2.SharedResources
            THEN cluster2.SharedResources[t] ELSE cluster1.SharedResources[t]]
  /\ merged.Confidence = FHalf(FAdd(cluster1.Confidence, cluster2.Confidence))
  /\ merged.LastSeen = Max2(cluster1.LastSeen, cluster2.LastSeen)

C15_MergeStep ==
  (ClusterCallStep("MergeClusters") /\ ReturnedCall.err = NoError) =>
    /\ ReturnedCall.id1 \in DOMAIN Clusters'
    /\ MergedAsSpecified(Clusters'[ReturnedCall.id1], Clusters[ReturnedCall.id1],
                         Clusters[ReturnedCall.id2])
    /\ ReturnedCall.id2 \notin DOMAIN Clusters'
    /\ \A other \in DOMAIN Clusters \ {ReturnedCall.id1, ReturnedCall.id2} :
         other \in DOMAIN Clusters' /\ Clusters'[other] = Clusters[other]

\* C15: after a successful MergeClusters(a, b) cluster a is in the registry
\* with the union of the domains and of the shared-signal ids, the resources
\* of a overwritten by those of b, the average confidence and the later
\* lastSeen; b is gone and no other cluster is changed.
C15_MergeResult == [][C15_MergeStep]_vars


C16_MergeErrorStep ==
  ClusterCallStep("MergeClusters") =>
    IF ReturnedCall.id1 \in DOMAIN Clusters /\ ReturnedCall.id2 \in DOMAIN Clusters
      THEN ReturnedCall.err = NoError
      ELSE ReturnedCall.err # NoError /\ Clusters' = Clusters

\* C16: MergeClusters(a, b) returns an error whenever a or b is not in the
\* registry, and then the registry is unchanged: no cluster is removed and
\* every cluster keeps its fields.
C16_MergeErrorNoEffect == [][C16_MergeErrorStep]_vars

\* C16 witness: a MergeClusters of a cluster of the registry with an unknown
\* id has returned the error
C16_Witness ==
  /\ ceCalls # <<>>
  /\ ceCalls[Len(ceCalls)].op = "MergeClusters"
  /\ ceCalls[Len(ceCalls)].err # NoError
  /\ ceCalls[Len(ceCalls)].id1 \in DOMAIN Clusters
  /\ ceCalls[Len(ceCalls)].id2 = UnknownCluster


\* the domains AddDomainToCluster has assigned to a cluster so far
AssignedDomains ==
  {ceCalls[i].domain : i \in {j \in 1..Len(ceCalls) : ceCalls[j].op = "AddDomainToCluster"}}

\* C17: attribution is never lost: after any sequence of AddDomainToCluster,
\* MergeClusters and UpdateClusterConfidence calls every domain that was
\* assigned to a cluster is in some cluster of the registry.
C17_AttributionKept ==
  \A domain \in AssignedDomains : GetClusterForDomain(domain) # {}


\* C18: a query operation (GetCluster, GetAllClusters, GetClusterForDomain,
\* GetClustersByConfidence, FindClustersByResource, GetClusterStatistics)
\* leaves the registry unchanged: the same cluster ids, and each cluster with
\* the same domains, shared signals, resources, confidence, FirstSeen and
\* LastSeen, whether its argument is known or unknown.
C18_QueryStep ==
  (\E op \in QueryOps : ClusterCallStep(op)) => Clusters' = Clusters

C18_QueriesReadOnly == [][C18_QueryStep]_vars

\* a query with an argument the registry does not know, of a registry that
\* two calls have filled
C18_Witness ==
  /\ Len(ceCalls) = 3
  /\ Clusters # <<>>
  /\ ceCalls[1].op = "AddDomainToCluster" /\ ceCalls[2].op = "AddDomainToCluster"
  /\ ceCalls[3].op = "GetCluster" /\ ~ceCalls[3].exists


\* the signals of the pool whose category has no weight
UnscoredSignals ==
  {s \in SignalPool :
     \A i \in 1..Len(ScoringCategories) : s.Category # ScoringCategories[i]}

\* C19: a signal whose category is none of UX, PAYMENT, INFRA, DNS, CDN never
\* contributes: the list with such a signal added has the same final score and
\* the same level as the list without it.
C19_UnscoredSignalIgnored ==
  result.done =>
    \A s \in UnscoredSignals :
      LET with == Analysis(Append(allSignals, s), config, result.ProfileUsed)
      IN  /\ with.JLIScore = result.JLIScore
          /\ with.JLILevel = result.JLILevel


\* C20: an invalid scoring profile is never the configuration in effect: after
\* Initialize and any LoadConfig and UpdateConfigValue calls the configuration
\* Get() returns has five weights summing to 1.0, high >= medium and both
\* thresholds in [0,1]; an update or load that would break this returns an
\* error and leaves the configuration as it was.
C20_ValidConfigInEffect ==
  /\ WeightsSumToOne(config)
  /\ ThresholdsOrdered(config)
  /\ ThresholdsInRange(config)


\* C21: a scan requested with profile name P scores with the weights and
\* thresholds of profile P: the score and the level of the result are those the
\* profile named by ProfileUsed gives the scan's signals.
C21_ProfileUsedScores ==
  result.done =>
    LET named == Analysis(allSignals, GetProfile(result.ProfileUsed), result.ProfileUsed)
    IN  /\ result.JLIScore = named.JLIScore
        /\ result.JLILevel = named.JLILevel


\* the category score the specification gives c: the largest confidence among
\* the signals of c, 0 when there is none
SpecCategoryScore(signals, c) ==
  IF c \in CategoriesOf(signals) /\ MaxConfidence(signals, c) > 0
    THEN Dec(MaxConfidence(signals, c), 2)
    ELSE FZero

\* sum over the five scoring categories of category score x weight
SpecRaw(signals, weights) ==
  LET term(c) == FMul(SpecCategoryScore(signals, c), CategoryWeight(c, weights))
  IN  FAdd(FAdd(FAdd(FAdd(FAdd(FZero, term("UX")), term("PAYMENT")), term("INFRA")),
                term("DNS")), term("CDN"))

\* 1.0 with three or more categories of score > 0, n x 0.33 with n < 3
SpecConfidenceFactor(signals) ==
  LET n == Cardinality({c \in CategoriesOf(signals) : MaxConfidence(signals, c) > 0})
  IN  IF n >= 3 THEN FInt(1) ELSE FMul(FInt(n), Dec(33, 2))

\* 1.2 when at least 70% of the signals have confidence >= 0.8, 1.0 otherwise
SpecSignalFactor(signals) ==
  LET high == Cardinality({i \in 1..Len(signals) : signals[i].Confidence >= 80})
  IN  IF signals # <<>> /\ 10 * high >= 7 * Len(signals) THEN Dec(12, 1) ELSE FInt(1)

\* one signal per scoring category: UX 0.8, PAYMENT 0.9, INFRA 0.6, DNS 0.4, CDN 0.3
DocumentedExample ==
  /\ Len(allSignals) = 5
  /\ \A i \in 1..5 : allSignals[i].Category = ScoringCategories[i]
  /\ <<allSignals[1].Confidence, allSignals[2].Confidence, allSignals[3].Confidence,
       allSignals[4].Confidence, allSignals[5].Confidence>> = <<80, 90, 60, 40, 30>>
  /\ config = GetDefaultConfig

\* C22: the final score is clamp(raw x confidenceFactor x signalFactor x 1.0, 0, 1)
\* with raw the weighted sum over the five scoring categories, confidenceFactor
\* 1.0 from three categories of score > 0 on and n x 0.33 below, signalFactor 1.2
\* when at least 70% of the signals have confidence >= 0.8 and 1.0 otherwise;
\* the documented five-signal example scores 0.675 and is MEDIUM.
C22_ScoreFormula ==
  result.done =>
    /\ result.JLIScore =
         Clamp01(FMul(FMul(FMul(SpecRaw(allSignals, config.Scoring),
                                SpecConfidenceFactor(allSignals)),
                           SpecSignalFactor(allSignals)),
                      FInt(1)))
    /\ (DocumentedExample =>
          result.JLIScore = Dec(675, 3) /\ result.JLILevel = "MEDIUM")

\* the documented example has been scored
C22_Witness == result.done /\ DocumentedExample


\* the similarity of cluster id to the analysis the returned call was given
SimilarityTo(id) == calculateClusterSimilarity(Clusters[id], ReturnedCall.signals)

\* some cluster of the registry reaches the clustering threshold 0.5
SomeClusterSimilar == \E id \in DOMAIN Clusters : FGe(SimilarityTo(id), Dec(5, 1))

HoldsDomain(cluster, domain) == \E i \in 1..Len(cluster.Domains) : cluster.Domains[i] = domain

\* C23: AddDomainToCluster joins the domain to an existing cluster exactly when
\* that cluster's similarity is the maximum over the registry and at least 0.5;
\* when no cluster reaches 0.5 it adds exactly one new cluster holding the
\* domain and modifies or replaces no existing cluster; the id returned is
\* that of a cluster of the registry that contains the domain.
C23_AddStep ==
  ClusterCallStep("AddDomainToCluster") =>
    /\ ReturnedCall.ret \in DOMAIN Clusters'
    /\ HoldsDomain(Clusters'[ReturnedCall.ret], ReturnedCall.domain)
    /\ IF SomeClusterSimilar
         THEN /\ ReturnedCall.ret \in DOMAIN Clusters
              /\ \A id \in DOMAIN Clusters :
                   FGe(SimilarityTo(ReturnedCall.ret), SimilarityTo(id))
              /\ DOMAIN Clusters' = DOMAIN Clusters
         ELSE /\ ReturnedCall.ret \notin DOMAIN Clusters
              /\ DOMAIN Clusters' = DOMAIN Clusters \cup {ReturnedCall.ret}
              /\ \A id \in DOMAIN Clusters : Clusters'[id] = Clusters[id]

C23_JoinOrCreate == [][C23_AddStep]_vars


\* the categories of the signals a cluster's shared-signal ids were taken from
SharedCategories(signals) ==
  {signals[i].Category :
     i \in {j \in 1..Len(signals) : signals[j].Category \in {"INFRA", "PAYMENT"}}}

\* the similarity as specified: 0.4 x shared categories / cluster categories
\* + 0.6 x matching resources / domain resources, a term with denominator 0
\* counting 0
SpecSimilarity(clusterCategories, clusterResources, domainCategories, domainResources) ==
  LET signalTerm ==
        IF clusterCategories = {} THEN FZero
        ELSE FMul(FDivInt(Cardinality(clusterCategories \cap domainCategories),
                          Cardinality(clusterCategories)), Dec(4, 1))
      matching == {t \in DOMAIN domainResources :
                     t \in DOMAIN clusterResources
                       /\ clusterResources[t] = domainResources[t]}
      resourceTerm ==
        IF DOMAIN domainResources = {} THEN FZero
        ELSE FMul(FDivInt(Cardinality(matching), Cardinality(DOMAIN domainResources)),
                  Dec(6, 1))
  IN  FAdd(signalTerm, resourceTerm)

\* the returned AddDomainToCluster call created the cluster it returned
CreatedCluster ==
  /\ ClusterCallStep("AddDomainToCluster")
  /\ Clusters'[ReturnedCall.ret].Domains = <<ReturnedCall.domain>>

\* C24: calculateClusterSimilarity is 0.4 x (cluster categories found among the
\* domain's categories) / (cluster categories) + 0.6 x (domain resources equal
\* to the cluster's) / (domain resources); a domain with exactly the cluster's
\* categories and only matching resources has similarity 1.0; the value lies
\* in [0,1].  Checked for each cluster at its creation against every analysis.
C24_SimilarityStep ==
  CreatedCluster =>
    \A signals \in ClusterAnalyses :
      LET cluster == Clusters'[ReturnedCall.ret]
          similarity == calculateClusterSimilarity(cluster, signals)
      IN  /\ similarity =
               SpecSimilarity(SharedCategories(ReturnedCall.signals),
                              cluster.SharedResources,
                              extractSignalCategories(signals),
                              extractSharedResources(signals))
          /\ InUnitInterval(similarity)
          /\ ( /\ signals = ReturnedCall.signals
               /\ extractSignalCategories(signals) = SharedCategories(signals)
               /\ DOMAIN extractSharedResources(signals) # {} )
             => similarity = FInt(1)

C24_SimilarityFormula == [][C24_SimilarityStep]_vars


\* the returned AddDomainToCluster call joined its domain to an existing cluster
JoinedCluster ==
  /\ ClusterCallStep("AddDomainToCluster")
  /\ ReturnedCall.best # ""

\* C25: a join appends the domain, refreshes LastSeen and adds each resource
\* type the cluster did not have with the domain's value; every resource value
\* the cluster had is kept, its id, FirstSeen, confidence and shared-signal ids
\* are unchanged, and no other cluster is changed.
C25_JoinStep ==
  JoinedCluster =>
    LET id       == ReturnedCall.ret
        old      == Clusters[id]
        new      == Clusters'[id]
        offered  == extractSharedResources(ReturnedCall.signals)
    IN  /\ new.Domains = Append(old.Domains, ReturnedCall.domain)
        /\ new.LastSeen = clock' /\ new.LastSeen >= old.LastSeen
        /\ DOMAIN new.SharedResources = DOMAIN old.SharedResources \cup DOMAIN offered
        /\ \A t \in DOMAIN old.SharedResources :
             new.SharedResources[t] = old.SharedResources[t]
        /\ \A t \in DOMAIN offered \ DOMAIN old.SharedResources :
             new.SharedResources[t] = offered[t]
        /\ new.ID = old.ID /\ new.FirstSeen = old.FirstSeen
        /\ new.Confidence = old.Confidence /\ new.SharedSignals = old.SharedSignals
        /\ DOMAIN Clusters' = DOMAIN Clusters
        /\ \A other \in DOMAIN Clusters \ {id} : Clusters'[other] = Clusters[other]

C25_JoinFrame == [][C25_JoinStep]_vars

\* a join has given the cluster a resource type it lacked (wallet) and has
\* kept the origin IP it had against the different one the domain offered
C25_Witness ==
  /\ Len(ceCalls) = 3
  /\ \A i \in 1..3 : ceCalls[i].op = "AddDomainToCluster"
  /\ ceCalls[2].ret = ceCalls[1].ret /\ ceCalls[3].ret = ceCalls[1].ret
  /\ DOMAIN extractSharedResources(ceCalls[1].signals) = {"ip"}
  /\ "wallet" \in DOMAIN extractSharedResources(ceCalls[2].signals)
  /\ extractSharedResources(ceCalls[3].signals)["ip"]
       # extractSharedResources(ceCalls[1].signals)["ip"]
  /\ DOMAIN Clusters[ceCalls[1].ret].SharedResources = {"ip", "wallet"}
  /\ Len(Clusters[ceCalls[1].ret].Domains) = 3


\* the ids of the PAYMENT and INFRA signals, in the order of the signals
RECURSIVE KeySignalIDs(_)
KeySignalIDs(signals) ==
  IF signals = <<>> THEN <<>>
  ELSE (IF Head(signals).Category \in {"PAYMENT", "INFRA"}
          THEN <<Head(signals).SignalID>> ELSE <<>>) \o KeySignalIDs(Tail(signals))

\* the returned AddDomainToCluster call found no cluster to join
CreatingCall(call) == call.op = "AddDomainToCluster" /\ call.best = ""

\* what is specified of a new cluster, its two times apart
NewClusterAsSpecified(cluster, call) ==
  /\ cluster.ID = call.ret
  /\ cluster.Confidence = FInt(1)
  /\ cluster.Domains = <<call.domain>>
  /\ cluster.SharedSignals = KeySignalIDs(call.signals)
  /\ cluster.SharedResources = extractSharedResources(call.signals)
  /\ \A i \in 1..Len(ceCalls) :
       ( /\ CreatingCall(ceCalls[i])
         /\ ceCalls[i].domain = call.domain
         /\ KeySignalIDs(ceCalls[i].signals) = KeySignalIDs(call.signals) )
       => ceCalls[i].ret = call.ret

\* C26: a cluster newly created by AddDomainToCluster has an id that is a
\* function of the domain and the ordered ids of its PAYMENT and INFRA signals,
\* confidence 1.0, the added domain as its only domain, the ids of the
\* domain's INFRA and PAYMENT signals as shared signals, the resources
\* extracted from the domain's signals, and FirstSeen equal to LastSeen.
C26_CreateStep ==
  (ClusterCallStep("AddDomainToCluster") /\ CreatingCall(ReturnedCall)) =>
    /\ NewClusterAsSpecified(Clusters'[ReturnedCall.ret], ReturnedCall)
    /\ Clusters'[ReturnedCall.ret].FirstSeen = Clusters'[ReturnedCall.ret].LastSeen

C26_NewCluster == [][C26_CreateStep]_vars


\* min(1.0, 0.3 x domains + 0.2 x shared-signal ids + 0.3 x shared resources)
SpecConfidence(cluster) ==
  LET sum == FAdd(FAdd(FMul(FInt(Len(cluster.Domains)), Dec(3, 1)),
                       FMul(FInt(Len(cluster.SharedSignals)), Dec(2, 1))),
                  FMul(FInt(Cardinality(DOMAIN cluster.SharedResources)), Dec(3, 1)))
  IN  IF FLt(sum, FInt(1)) THEN sum ELSE FInt(1)

\* the same sum in tenths, exactly
TenthsOfConfidence(cluster) ==
  3 * Len(cluster.Domains) + 2 * Len(cluster.SharedSignals)
    + 3 * Cardinality(DOMAIN cluster.SharedResources)

C27_UpdateStep ==
  ClusterCallStep("UpdateClusterConfidence") =>
    IF ReturnedCall.id \in DOMAIN Clusters
      THEN LET old == Clusters[ReturnedCall.id]
               new == Clusters'[ReturnedCall.id]
           IN  /\ new.Confidence = SpecConfidence(old)
               /\ (TenthsOfConfidence(old) >= 10 <=> new.Confidence = FInt(1))
               /\ new = [old EXCEPT !.Confidence = new.Confidence]
               /\ DOMAIN Clusters' = DOMAIN Clusters
               /\ \A other \in DOMAIN Clusters \ {ReturnedCall.id} :
                    Clusters'[other] = Clusters[other]
      ELSE Clusters' = Clusters

ConfidencesInUnitInterval ==
  \A id \in DOMAIN Clusters : InUnitInterval(Clusters[id].Confidence)

\* C27: UpdateClusterConfidence(id) sets an existing cluster's confidence to
\* min(1.0, 0.3 x domains + 0.2 x shared-signal ids + 0.3 x shared resources)
\* and changes nothing else, and changes nothing for an unknown id; after any
\* sequence of AddDomainToCluster, MergeClusters and UpdateClusterConfidence
\* calls every cluster's confidence lies in [0,1].
C27_Confidence == []ConfidencesInUnitInterval /\ [][C27_UpdateStep]_vars

\* a recalculation has lowered the confidence of a new cluster below 1.0
C27_Witness ==
  /\ ceCalls # <<>>
  /\ ceCalls[Len(ceCalls)].op = "UpdateClusterConfidence"
  /\ ceCalls[Len(ceCalls)].id \in DOMAIN Clusters
  /\ FLt(Clusters[ceCalls[Len(ceCalls)].id].Confidence, FInt(1))
  /\ FGt(Clusters[ceCalls[Len(ceCalls)].id].Confidence, FZero)


\* how many entries of the registry's domain lists are domain
RECURSIVE Occurrences(_, _)
Occurrences(domain, ids) ==
  IF ids = {} THEN 0
  ELSE LET id == CHOOSE x \in ids : TRUE
       IN  Cardinality({i \in 1..Len(Clusters[id].Domains) : Clusters[id].Domains[i] = domain})
             + Occurrences(domain, ids \ {id})

\* C28: cluster domains form a set and clusters partition the attributed
\* domains: after any sequence of AddDomainToCluster and MergeClusters calls
\* every domain name occurs at most once in the whole registry, never twice in
\* one cluster's list and never in two clusters.
C28_DomainsPartitioned ==
  \A domain \in ClusterDomains : Occurrences(domain, DOMAIN Clusters) <= 1


LevelRank(level) == CASE level = "LOW" -> 0 [] level = "MEDIUM" -> 1 [] level = "HIGH" -> 2

\* the signals of the pool that duplicate a category of the list with a
\* strictly lower confidence than a signal the list has
LowerDuplicates(signals) == {s \in SignalPool : StrictlyLowerDuplicate(signals, s)}

\* C29: appending to a signal list signals whose confidence is strictly lower
\* than that of an existing signal of the same category never increases the
\* final score and never raises the level (one and two appended signals).
C29_DuplicatesDoNotInflate ==
  result.done =>
    \A s1 \in LowerDuplicates(allSignals) :
      \A more \in {<<s1>>} \cup {<<s1, s2>> : s2 \in LowerDuplicates(allSignals)} :
        LET spammed == Analysis(allSignals \o more, config, result.ProfileUsed)
        IN  /\ FLe(spammed.JLIScore, result.JLIScore)
            /\ LevelRank(spammed.JLILevel) <= LevelRank(result.JLILevel)


\* the capacity of a task's stop channel: make(chan bool, 1)
StopChanCapacity == 1

\* no sender is blocked on a stop channel
NoSenderBlocked ==
  \A id \in 1..Len(monitors) : monitors[id].StopChan <= StopChanCapacity

\* this step sends a stop message to the task of monitors[id]
StopSent(id) == monitors'[id].StopChan > monitors[id].StopChan

C30_StopStep ==
  \A id \in 1..Len(monitors) :
    /\ StopSent(id) =>
         /\ monitors[id].StopChan = 0
         /\ id \in Registered /\ id \notin Registered'
         /\ mCall'.op \in {"RemoveDomain", "StopAll"}
         /\ mu' = Unlocked
    /\ id \notin Registered => id \notin Registered'

\* C30: RemoveDomain and StopAll never block while they hold the registry
\* lock: whatever the task is doing (waiting for its timer, scanning, exited
\* after a pause) the send on its stop channel of capacity 1 completes, since
\* a task is sent at most one stop message in its lifetime, and the lock is
\* released.
C30_StopNeverBlocks == []NoSenderBlocked /\ [][C30_StopStep]_vars

\* RemoveDomain has returned although the task had exited before, after a
\* pause: its stop message stays in the channel
C30_Witness ==
  /\ mCall.op = "RemoveDomain" /\ mCall.err = NoError
  /\ mu = Unlocked
  /\ \E id \in 1..Len(monitors) :
       /\ monitors[id].pc = "exited"
       /\ monitors[id].StopChan = 1
       /\ id \notin Registered

====
